---- MODULE Spec2Model ----
(***************************************************************************)
(* Model of Scripts/get_sentences.py: the sentence utilities, the Quality  *)
(* Filter, the inverted index and retriever, and main's resumable row      *)
(* loop.                                                                   *)
(*                                                                         *)
(* Text is a sequence of one-character strings.  Characters outside ASCII  *)
(* are written as named atoms: "<BOM>" (U+FEFF), "<ldq>" "<rdq>" "<lsq>"   *)
(* "<rsq>" (curly quotes), "<bullet>" "<sect>" "<para>".                   *)
(* Python indexes from 0; sequences here index from 1.                     *)
(***************************************************************************)
EXTENDS Integers, Sequences, FiniteSets, TLC

\* ------------------------------------------------------------------------
\* Characters
\* ------------------------------------------------------------------------
UpperSeq == <<"A","B","C","D","E","F","G","H","I","J","K","L","M",
              "N","O","P","Q","R","S","T","U","V","W","X","Y","Z">>
LowerSeq == <<"a","b","c","d","e","f","g","h","i","j","k","l","m",
              "n","o","p","q","r","s","t","u","v","w","x","y","z">>
UpperSet == {"A","B","C","D","E","F","G","H","I","J","K","L","M",
             "N","O","P","Q","R","S","T","U","V","W","X","Y","Z"}
LowerSet == {"a","b","c","d","e","f","g","h","i","j","k","l","m",
             "n","o","p","q","r","s","t","u","v","w","x","y","z"}
DigitSet == {"0","1","2","3","4","5","6","7","8","9"}

\* str.isalpha / str.isupper / str.isdigit / str.isspace on one character
AlphaSet == UpperSet \cup LowerSet
IsAlpha(c) == c \in AlphaSet
IsUpper(c) == c \in UpperSet
IsDigit(c) == c \in DigitSet
WhiteSpace == {" ", "\n", "\t", "\r"}
IsSpace(c) == c \in WhiteSpace
\* the regex class \w
WordChSet == AlphaSet \cup DigitSet \cup {"_"}
IsWordCh(c) == c \in WordChSet
\* str.lower on one character
LowerOf == [c \in UpperSet |->
               LowerSeq[CHOOSE i \in DOMAIN UpperSeq : UpperSeq[i] = c]]
ToLower(c) == IF c \in UpperSet THEN LowerOf[c] ELSE c
LowerStr(s) == [i \in DOMAIN s |-> ToLower(s[i])]

\* The Python string of a character sequence (for membership in word lists)
RECURSIVE Join(_)
Join(s) == IF s = <<>> THEN "" ELSE s[1] \o Join(Tail(s))

\* Optional[str]: None is a value no text equals
None == <<"<None>">>
Truthy(v) == v # None /\ v # <<>>

\* ------------------------------------------------------------------------
\* Generic string helpers (str.strip, in, count, split)
\* ------------------------------------------------------------------------
Sub(s, a, b) == IF a > b THEN <<>> ELSE SubSeq(s, a, b)

\* s.strip(chars): drop the characters of cs from both ends
StripChars(s, cs) ==
    LET first[j \in 1..(Len(s) + 1)] ==
            IF j > Len(s) \/ s[j] \notin cs THEN j ELSE first[j + 1]
        last[j \in 0..Len(s)] ==
            IF j = 0 \/ s[j] \notin cs THEN j ELSE last[j - 1]
    IN  Sub(s, first[1], last[Len(s)])
\* s.lstrip(chars)
LStripChars(s, cs) ==
    LET first[j \in 1..(Len(s) + 1)] ==
            IF j > Len(s) \/ s[j] \notin cs THEN j ELSE first[j + 1]
    IN  Sub(s, first[1], Len(s))
Strip(s) == StripChars(s, WhiteSpace)

\* pat occurs in s at position p
OccursAt(s, p, pat) ==
    /\ p >= 1
    /\ p + Len(pat) - 1 <= Len(s)
    /\ \A k \in 1..Len(pat) : s[p + k - 1] = pat[k]
\* pat in s
Contains(s, pat) == \E p \in 1..(Len(s) + 1) : OccursAt(s, p, pat)
\* s.count(pat): non-overlapping occurrences, left to right
RECURSIVE CountFrom(_, _, _)
CountFrom(s, p, pat) ==
    IF p + Len(pat) - 1 > Len(s) THEN 0
    ELSE IF OccursAt(s, p, pat) THEN 1 + CountFrom(s, p + Len(pat), pat)
    ELSE CountFrom(s, p + 1, pat)
Count(s, pat) == CountFrom(s, 1, pat)
CountCh(s, c) == Cardinality({i \in DOMAIN s : s[i] = c})

\* Maximal runs of characters satisfying a class: re.findall(r"[class]+", s).
\* RunStarts/RunEnd give each run's first and last position.
RunStarts(s, class) ==
    {i \in DOMAIN s : s[i] \in class /\ (i = 1 \/ s[i - 1] \notin class)}
RunEnd(s, class, i) ==
    LET end[j \in i..Len(s)] ==
            IF j = Len(s) \/ s[j + 1] \notin class THEN j ELSE end[j + 1]
    IN  end[i]
\* len(s.split()): the number of whitespace-separated words
WordCount(s) ==
    Cardinality({i \in DOMAIN s :
                    ~IsSpace(s[i]) /\ (i = 1 \/ IsSpace(s[i - 1]))})

\* ------------------------------------------------------------------------
\* Sentence utilities
\* ------------------------------------------------------------------------
\* WS_RE.sub(" ", text).strip()
RECURSIVE CollapseWs(_)
CollapseWs(s) ==
    IF s = <<>> THEN <<>>
    ELSE IF IsSpace(s[1])
         THEN IF Len(s) > 1 /\ IsSpace(s[2])
              THEN CollapseWs(Tail(s))
              ELSE <<" ">> \o CollapseWs(Tail(s))
         ELSE <<s[1]>> \o CollapseWs(Tail(s))
normalize_ws(text) == Strip(CollapseWs(text))

QuoteChars == {" ", "'", "\"", "<ldq>", "<rdq>", "<lsq>", "<rsq>"}
strip_outer_quotes(s) == StripChars(s, QuoteChars)

Terminators == {".", "!", "?"}
\* the closing characters ["'”’\)\]] allowed after a terminator
Closers == {"\"", "'", "<rdq>", "<rsq>", ")", "]"}

\* The regex ([\s\S]*?[.!?])["'”’\)\]]*(?:\s|$): j ends group 1 when s[j] is a
\* terminator and the closers after it are followed by whitespace or the end.
EndsFirst(s, j) ==
    /\ s[j] \in Terminators
    /\ \E e \in j..Len(s) :
          /\ \A k \in (j + 1)..e : s[k] \in Closers
          /\ (e = Len(s) \/ IsSpace(s[e + 1]))
first_sentence(text) ==
    LET t  == normalize_ws(text)
        js == {j \in DOMAIN t : EndsFirst(t, j)}
    IN  IF js = {} THEN t
        ELSE Strip(Sub(t, 1, CHOOSE j \in js : \A k \in js : j <= k))

_ABBREV_TOKENS ==
    {"mr.","mrs.","ms.","dr.","prof.","sr.","jr.","st.","mt.","rev.","fr.",
     "no.","vol.","fig.","ch.","pp.","pg.","dept.","dept","inc.","co.","corp.",
     "jan.","feb.","mar.","apr.","jun.","jul.","aug.","sep.","sept.","oct.",
     "nov.","dec.","vs."}

\* The last token of re.findall(r"[A-Za-z]+\.?|[0-9]+|[^\sA-Za-z0-9]", s):
\* a letter run with its period, a digit run, or one other character.
LastRunStart(s, class, e) ==
    LET starts == {i \in 1..e : \A k \in i..e : s[k] \in class}
    IN  CHOOSE i \in starts : \A j \in starts : i <= j
LastToken(s) ==
    LET t == Strip(s)
        n == Len(t)
    IN  IF n = 0 THEN <<>>
        ELSE IF IsAlpha(t[n]) THEN Sub(t, LastRunStart(t, AlphaSet, n), n)
        ELSE IF t[n] = "." /\ n > 1 /\ IsAlpha(t[n - 1])
             THEN Sub(t, LastRunStart(t, AlphaSet, n - 1), n)
        ELSE IF IsDigit(t[n]) THEN Sub(t, LastRunStart(t, DigitSet, n), n)
        ELSE <<t[n]>>

\* _SHORT_ABBR_RE, \b[A-Za-z]{1,3}\.$, searched in a token
ShortAbbr(tok) ==
    /\ Len(tok) >= 2 /\ Len(tok) <= 4
    /\ tok[Len(tok)] = "."
    /\ \A k \in 1..(Len(tok) - 1) : IsAlpha(tok[k])

\* no fragment is taken to end in an abbreviation
_looks_like_abbrev_end_Never(s) == FALSE

_looks_like_abbrev_end(s) ==
    LET last == LowerStr(LastToken(s))
    IN  /\ last # <<>>
        /\ (Join(last) \in _ABBREV_TOKENS \/ ShortAbbr(last))

\* _SENT_SPLIT_RE, (?<=[.!?])["'<rdq><rsq>\)\]]*\s+ : a delimiter starts at p
\* (right after a terminator) and runs through closers and whitespace to
\* DelimEnd.  re.split takes the delimiters left to right.
DelimAt(s, p) ==
    /\ p > 1 /\ p <= Len(s)
    /\ s[p - 1] \in Terminators
    /\ \E e \in p..Len(s) :
          /\ \A k \in p..(e - 1) : s[k] \in Closers
          /\ IsSpace(s[e])
DelimEnd(s, p) ==
    LET e == IF s[p] \in Closers THEN RunEnd(s, Closers, p) + 1 ELSE p
    IN  RunEnd(s, WhiteSpace, e)

\* the delimiter takes the terminator with it: a fragment that is followed
\* by another loses its last character
RECURSIVE SplitFrom_ConsumeTerminator(_, _, _)
SplitFrom_ConsumeTerminator(s, start, p) ==
    IF p > Len(s) THEN <<Sub(s, start, Len(s))>>
    ELSE IF DelimAt(s, p)
         THEN <<Sub(s, start, p - 2)>>
                 \o SplitFrom_ConsumeTerminator(s, DelimEnd(s, p) + 1,
                                                DelimEnd(s, p) + 1)
         ELSE SplitFrom_ConsumeTerminator(s, start, p + 1)

RECURSIVE SplitFrom(_, _, _)
SplitFrom(s, start, p) ==
    IF p > Len(s) THEN <<Sub(s, start, Len(s))>>
    ELSE IF DelimAt(s, p)
         THEN <<Sub(s, start, p - 1)>>
                 \o SplitFrom(s, DelimEnd(s, p) + 1, DelimEnd(s, p) + 1)
         ELSE SplitFrom(s, start, p + 1)

\* the merge loop over parts[1:]
RECURSIVE MergeParts(_, _, _)
MergeParts(merged, buffer, rest) ==
    IF rest = <<>> THEN Append(merged, buffer)
    ELSE IF _looks_like_abbrev_end(buffer)
         THEN MergeParts(merged, buffer \o <<" ">> \o Head(rest), Tail(rest))
         ELSE MergeParts(Append(merged, buffer), Head(rest), Tail(rest))

\* a fragment that does not end in a terminator is dropped
split_sentences_OnlyTerminated(text) ==
    LET t     == normalize_ws(text)
        pieces == SplitFrom(t, 1, 1)
        parts == SelectSeq([k \in DOMAIN pieces |-> Strip(pieces[k])],
                           LAMBDA x : x # <<>> /\ x[Len(x)] \in Terminators)
    IN  IF t = <<>> \/ parts = <<>> THEN <<>>
        ELSE MergeParts(<<>>, Head(parts), Tail(parts))

split_sentences(text) ==
    LET t     == normalize_ws(text)
        pieces == SplitFrom(t, 1, 1)
        parts == SelectSeq([k \in DOMAIN pieces |-> Strip(pieces[k])],
                           LAMBDA x : x # <<>>)
    IN  IF t = <<>> \/ parts = <<>> THEN <<>>
        ELSE MergeParts(<<>>, Head(parts), Tail(parts))

\* ------------------------------------------------------------------------
\* Quality Filter
\* ------------------------------------------------------------------------
FUNC_WORDS ==
    {"the","a","an","to","and","of","in","that","for","with","on","at","as",
     "by","from","is","are","was","were","be","been","being",
     "have","has","had","do","does","did","can","could","will","would",
     "shall","should","may","might","must",
     "i","you","he","she","we","they","it","this","these","those"}

VERB_LIKE ==
    {"is","are","was","were","be","been","being","have","has","had","do",
     "does","did","can","could","will","would","shall","should","may",
     "might","must",
     "go","goes","went","gone","make","makes","made","say","says","said",
     "see","sees","saw","seen","know","knows","knew","known","think",
     "thinks","thought",
     "come","comes","came","take","takes","took","taken","give","gives",
     "gave","given","tell","tells","told","ask","asks","asked","want",
     "wants","wanted"}

\* letters / max(1, len(s)) < 0.7, in integers
AlphaRatioLow(s) ==
    LET letters == Cardinality({i \in DOMAIN s : IsAlpha(s[i])})
        total   == IF Len(s) < 1 THEN 1 ELSE Len(s)
    IN  letters * 10 < 7 * total

Glyphs == {"_", "<bullet>", "<sect>", "<para>"}

\* A match of \b[A-Za-z]{1,3}\.\b starting at p: a word boundary before p,
\* one to three letters, a period, and a word character after the period.
AbbrAt(s, p) ==
    /\ IsAlpha(s[p])
    /\ (p = 1 \/ ~IsWordCh(s[p - 1]))
    /\ \E n \in 1..3 :
          /\ p + n + 1 <= Len(s)
          /\ \A k \in p..(p + n - 1) : IsAlpha(s[k])
          /\ s[p + n] = "."
          /\ IsWordCh(s[p + n + 1])

_looks_wordy(s) ==
    LET starts == RunStarts(s, AlphaSet)
        caps_tokens ==
            Cardinality({i \in starts :
                LET j == RunEnd(s, AlphaSet, i)
                IN  j - i + 1 > 2 /\ \A k \in i..j : IsUpper(s[k])})
        abbr == Cardinality({p \in DOMAIN s : AbbrAt(s, p)})
    IN  /\ ~AlphaRatioLow(s)
        /\ \A i \in DOMAIN s : s[i] \notin Glyphs
        /\ Cardinality({i \in DOMAIN s : IsDigit(s[i])}) < 3
        /\ caps_tokens < 2
        /\ abbr < 2

\* the class [A-Za-z']
TokChSet == AlphaSet \cup {"'"}
\* [w.lower() for w in re.findall(r"[A-Za-z']+", s)], as a sequence of the
\* runs' start positions in order (a word may occur more than once)
WordAt(s, i) == Join(LowerStr(Sub(s, i, RunEnd(s, TokChSet, i))))

func_count(s) ==
    Cardinality({i \in RunStarts(s, TokChSet) : WordAt(s, i) \in FUNC_WORDS})
verb_hit(s) == \E i \in RunStarts(s, TokChSet) : WordAt(s, i) \in VERB_LIKE

\* either of the two is enough
_has_function_words_or_verb(s) == func_count(s) >= 2 \/ verb_hit(s)

_has_function_words_and_verb(s) == func_count(s) >= 2 /\ verb_hit(s)

Boilerplate ==
    { <<"p","r","o","j","e","c","t"," ","g","u","t","e","n","b","e","r","g">>,
      <<"a","l","l"," ","r","i","g","h","t","s"," ","r","e","s","e","r","v","e","d">>,
      <<"c","o","p","y","r","i","g","h","t">>,
      <<"e","b","o","o","k">>,
      <<"h","t","t","p",":","/","/">>,
      <<"h","t","t","p","s",":","/","/">> }

\* str.isupper(): at least one cased character and no lowercase one
StrIsUpper(s) ==
    /\ \E i \in DOMAIN s : s[i] \in UpperSet
    /\ \A i \in DOMAIN s : s[i] \notin LowerSet

\* The rules of seems_complete_sentence, one definition each
LengthOk(s, min_words, max_words) ==
    LET n == WordCount(s) IN min_words <= n /\ n <= max_words
EndsOk(s) == s # <<>> /\ s[Len(s)] \in Terminators
StartsOk(s) ==
    LET alphas == {i \in DOMAIN s : IsAlpha(s[i])}
    IN  /\ alphas # {}
        /\ IsUpper(s[CHOOSE i \in alphas : \A j \in alphas : i <= j])
Noisy(s) == LET lowered == LowerStr(s)
            IN  \E b \in Boilerplate : Contains(lowered, b)
Shouty(s) ==
    \/ StrIsUpper(s)
    \/ Count(s, <<".", ".", ".">>) > 1
    \/ CountCh(s, "!") > 2
    \/ CountCh(s, "?") > 2

\* seems_complete_sentence without the rule on the first letter
seems_complete_sentence_NoStart(s, min_words, max_words) ==
    /\ LengthOk(s, min_words, max_words)
    /\ EndsOk(s)
    /\ ~Noisy(s)
    /\ ~Shouty(s)
    /\ _looks_wordy(s)
    /\ _has_function_words_and_verb(s)

\* seems_complete_sentence without its last rule
seems_complete_sentence_NoLexical(s, min_words, max_words) ==
    /\ LengthOk(s, min_words, max_words)
    /\ EndsOk(s)
    /\ StartsOk(s)
    /\ ~Noisy(s)
    /\ ~Shouty(s)
    /\ _looks_wordy(s)

seems_complete_sentence(s, min_words, max_words) ==
    /\ LengthOk(s, min_words, max_words)
    /\ EndsOk(s)
    /\ StartsOk(s)
    /\ ~Noisy(s)
    /\ ~Shouty(s)
    /\ _looks_wordy(s)
    /\ _has_function_words_and_verb(s)

\* ------------------------------------------------------------------------
\* Term matching
\* ------------------------------------------------------------------------
\* \b between s[k] and s[k+1] (k = 0 and k = Len(s) are the string's edges)
IsWordAt(s, k) == k >= 1 /\ k <= Len(s) /\ IsWordCh(s[k])
WordBoundary(s, k) == IsWordAt(s, k) # IsWordAt(s, k + 1)

\* pat occurs in s at p, ignoring case
OccursAtCI(s, p, pat) ==
    /\ p >= 1
    /\ p + Len(pat) - 1 <= Len(s)
    /\ \A k \in 1..Len(pat) : ToLower(s[p + k - 1]) = ToLower(pat[k])

Tails == {<<"'", "s">>, <<"s">>, <<"e", "s">>}

\* build_match_regex(term).search(s):
\*   \bterm\b | \bterm(?:'s|s|es)\b   with re.IGNORECASE
\* the pattern \bterm alone: the term may be the start of any word
build_match_regex_NoEndBoundary(term, s) ==
    \E p \in 1..(Len(s) + 1) :
        /\ WordBoundary(s, p - 1)
        /\ OccursAtCI(s, p, term)

build_match_regex(term, s) ==
    \E p \in 1..(Len(s) + 1) :
        /\ WordBoundary(s, p - 1)
        /\ OccursAtCI(s, p, term)
        /\ LET e == p + Len(term) - 1
           IN  \/ WordBoundary(s, e)
               \/ \E tl \in Tails :
                     /\ OccursAtCI(s, e + 1, tl)
                     /\ WordBoundary(s, e + Len(tl))

\* _term_variants(term): the four lookup keys, as a sequence in the order
\* the Python set happens to iterate (order is one of 24 permutations).
VariantList(term) ==
    LET t == LowerStr(term)
    IN  << Join(t), Join(t \o <<"'", "s">>), Join(t \o <<"s">>),
           Join(t \o <<"e", "s">>) >>
Perms4 == Permutations(1..4)
_term_variants(term, perm) ==
    LET v == VariantList(term) IN [n \in 1..4 |-> v[perm[n]]]

\* _tokenize_simple(s) filtered by re.match(r"[A-Za-z']+$", t), lowercased:
\* the set of index keys of a sentence
IndexTokens(s) == {WordAt(s, i) : i \in RunStarts(s, TokChSet)}

\* ------------------------------------------------------------------------
\* Inverted index and retriever
\* ------------------------------------------------------------------------
\* file_sentences is Dict[Path, List[str]]: here a sequence of documents in
\* the dict's insertion order, each a sequence of sentences.  A posting
\* (Path, sentence_index) is <<d, i>>.
RECURSIVE RefsFrom(_, _)
RefsFrom(file_sentences, d) ==
    IF d > Len(file_sentences) THEN <<>>
    ELSE [i \in 1..Len(file_sentences[d]) |-> <<d, i>>]
            \o RefsFrom(file_sentences, d + 1)
AllRefs(file_sentences) == RefsFrom(file_sentences, 1)

SeqRange(q) == {q[i] : i \in DOMAIN q}

\* one posting for every occurrence of a token: toks is a list, not a set
BuildInverted_PerOccurrence(file_sentences) ==
    LET refs == AllRefs(file_sentences)
        sent(r) == file_sentences[r[1]][r[2]]
        occ(r, t) == Cardinality({i \in RunStarts(sent(r), TokChSet) :
                                     WordAt(sent(r), i) = t})
        toks == UNION {IndexTokens(sent(r)) : r \in SeqRange(refs)}
        post[k \in 0..Len(refs)] ==
            [t \in toks |->
                IF k = 0 THEN <<>>
                ELSE post[k - 1][t]
                        \o [j \in 1..occ(refs[k], t) |-> refs[k]]]
    IN  [present |-> TRUE, map |-> post[Len(refs)]]

\* The index built by main: token -> postings, in document then sentence order

BuildInverted(file_sentences) ==
    LET refs == AllRefs(file_sentences)
        \* <<ref, tok>> for tok in set(_tokenize_simple(s))
        pairs == UNION {{<<r, t>> : t \in IndexTokens(file_sentences[r[1]][r[2]])} :
                          r \in SeqRange(refs)}
        toks == {p[2] : p \in pairs}
    IN  [present |-> TRUE,
         map |-> [t \in toks |-> SelectSeq(refs, LAMBDA r : <<r, t>> \in pairs)]]
\* inverted = None
NoIndex == [present |-> FALSE, map |-> <<>>]
\* inverted.get(v, [])
InvertedGet(inverted, v) ==
    IF v \in DOMAIN inverted.map THEN inverted.map[v] ELSE <<>>

\* candidates: the postings of every variant, in variant order, each ref once
RECURSIVE AppendNew(_, _)
AppendNew(cands, refs) ==
    IF refs = <<>> THEN cands
    ELSE AppendNew(IF Head(refs) \in SeqRange(cands) THEN cands
                   ELSE Append(cands, Head(refs)),
                   Tail(refs))
RECURSIVE CandidatesFrom(_, _, _, _)
CandidatesFrom(cands, variants, k, inverted) ==
    IF k > Len(variants) THEN cands
    ELSE CandidatesFrom(AppendNew(cands, InvertedGet(inverted, variants[k])),
                        variants, k + 1, inverted)
Candidates(term, inverted, perm) ==
    IF inverted.present
    THEN CandidatesFrom(<<>>, _term_variants(term, perm), 1, inverted)
    ELSE <<>>

\* the full scan is never taken
ToVisit_CandidatesOnly(term, file_sentences, inverted, perm) ==
    Candidates(term, inverted, perm)

\* The sentences the loop will visit: the candidates when there are any,
\* else every sentence of every document.
ToVisit(term, file_sentences, inverted, perm) ==
    LET c == Candidates(term, inverted, perm)
    IN  IF c # <<>> THEN c ELSE AllRefs(file_sentences)

BestLenInit == 1000000000
SearchAcc0 == [best |-> None, best_len |-> BestLenInit, returned |-> FALSE]

\* a later sentence of equal length replaces the best so far
Shorter_OrEqual(n, best_len) == n <= best_len

\* The comparison that replaces the best sentence so far (n < best_len)
Shorter(n, best_len) == n < best_len

\* One iteration of either loop of search_sources_for_term on posting ref
Examine(acc, ref, term, file_sentences, min_words, max_words, prefer_shorter) ==
    IF ref[1] > Len(file_sentences) \/ ref[2] > Len(file_sentences[ref[1]])
    THEN acc
    ELSE
    LET s2 == first_sentence(strip_outer_quotes(file_sentences[ref[1]][ref[2]]))
    IN  IF build_match_regex(term, s2)
           /\ seems_complete_sentence(s2, min_words, max_words)
        THEN IF prefer_shorter
             THEN IF Shorter(WordCount(s2), acc.best_len)
                  THEN [best |-> s2, best_len |-> WordCount(s2), returned |-> FALSE]
                  ELSE acc
             ELSE [best |-> s2, best_len |-> acc.best_len, returned |-> TRUE]
        ELSE acc

RECURSIVE SearchLoop(_, _, _, _, _, _, _, _)
SearchLoop(acc, todo, k, term, file_sentences, min_words, max_words, prefer_shorter) ==
    IF k > Len(todo) \/ acc.returned THEN acc.best
    ELSE SearchLoop(Examine(acc, todo[k], term, file_sentences,
                            min_words, max_words, prefer_shorter),
                    todo, k + 1, term, file_sentences,
                    min_words, max_words, prefer_shorter)

\* search_sources_for_term; perm is the iteration order of the variant set
search_sources_for_term(term, file_sentences, min_words, max_words, prefer_shorter, inverted, perm) ==
    SearchLoop(SearchAcc0, ToVisit(term, file_sentences, inverted, perm), 1,
               term, file_sentences, min_words, max_words, prefer_shorter)

\* ------------------------------------------------------------------------
\* Tatoeba fallback
\* ------------------------------------------------------------------------
\* What requests.get and resp.json() can produce.  kind is
\*   "error"     the request raised, or the body is not JSON
\*   "status"    a status code other than 200
\*   "notobject" JSON whose top level is a list: data.get raises
\*   "notlist"   a JSON object whose "results" is not a list
\*   "ok"        a JSON object with the texts of its results
\* and "unavailable" stands for a process without the requests module: the
\* function returns before any request is made (lines 226-228).
NoRequests == [kind |-> "unavailable", results |-> <<>>]
RECURSIVE FetchLoop(_, _, _, _, _, _)
FetchLoop(best, best_len, texts, term, min_words, max_words) ==
    IF texts = <<>> THEN best
    ELSE LET s == first_sentence(strip_outer_quotes(normalize_ws(Head(texts))))
             n == WordCount(s)
             take == /\ Head(texts) # <<>>
                     /\ build_match_regex(term, s)
                     /\ seems_complete_sentence(s, min_words, max_words)
                     /\ n < best_len
         IN  FetchLoop(IF take THEN s ELSE best, IF take THEN n ELSE best_len,
                       Tail(texts), term, min_words, max_words)
\* fetch_tatoeba_sentence: [raised, value]
fetch_tatoeba_sentence(term, resp, min_words, max_words) ==
    IF resp.kind \in {"unavailable", "error", "status", "notlist"}
    THEN [raised |-> FALSE, value |-> None]
    ELSE IF resp.kind = "notobject"
    THEN [raised |-> TRUE, value |-> None]
    ELSE [raised |-> FALSE,
          value |-> FetchLoop(None, BestLenInit, resp.results, term,
                              min_words, max_words)]

\* ------------------------------------------------------------------------
\* CSV processing
\* ------------------------------------------------------------------------
\* A CSV file is a sequence of records, a record a sequence of cells.
H_Term     == <<"E","n","g","l","i","s","h","_","T","e","r","m">>
H_Sentence == <<"E","n","g","l","i","s","h","_","S","e","n","t","e","n","c","e">>
H_Note     == <<"N","o","t","e">>

\* (h or "").strip().lstrip("﻿")
NormCell(h) == LStripChars(Strip(h), {"<BOM>"})
NormHeader(cells) == [k \in DOMAIN cells |-> NormCell(cells[k])]

\* row.get(k, "") / (row.get(k) or "")
Get(row, k) == IF k \in DOMAIN row THEN row[k] ELSE <<>>

\* One DictReader row: raw header cell -> field (restval "" when the record
\* is short, fields beyond the header go to _EXTRA and are dropped), then
\* every key that is not a normalized header cell is removed.
LoadRow(raw_header, header, fields) ==
    LET keys == {raw_header[k] : k \in DOMAIN raw_header} \cap SeqRange(header)
        last(key) == CHOOSE k \in DOMAIN raw_header :
                        /\ raw_header[k] = key
                        /\ \A j \in DOMAIN raw_header : raw_header[j] = key => j <= k
    IN  [key \in keys |->
            IF last(key) <= Len(fields) THEN fields[last(key)] ELSE <<>>]
\* load_csv_rows: (header, rows)
load_csv_rows(raw_header, records) ==
    [header |-> NormHeader(raw_header),
     rows   |-> [k \in DOMAIN records |->
                    LoadRow(raw_header, NormHeader(raw_header), records[k])]]

\* safe_row = {h: row.get(h, "") for h in header}, as the record written
safe_row(header, row) == [k \in DOMAIN header |-> Get(row, header[k])]

\* The number of physical lines a record takes in the file: the writer
\* quotes a cell that holds a line break and writes it as it is.
RECURSIVE SumSeq(_)
SumSeq(q) == IF q = <<>> THEN 0 ELSE Head(q) + SumSeq(Tail(q))
RecordLines(rec) == 1 + SumSeq([k \in DOMAIN rec |-> CountCh(rec[k], "\n")])
\* sum(1 for _ in rf2)
FileLines(file) == SumSeq([k \in DOMAIN file |-> RecordLines(file[k])])

\* mode = "a" if exists else "w"
OpenMode_AlwaysW(exists) == "w"
OpenMode(exists) == IF exists THEN "a" ELSE "w"

\* writer.writeheader() is called only for a new file
WritesHeader_Always(exists) == TRUE
WritesHeader(exists) == ~exists

\* rows_written: the existing file's line count less the header line
RowsWritten(file) == FileLines(file) - 1

\* _prepare_output_writer(path, header), given whether the file is there
\* and what it holds: the open mode, whether SystemExit is raised, whether
\* the header is written, and rows_written.
_prepare_output_writer(out_there, file, header) ==
    LET exists == out_there /\ file # <<>>
        existing_header == IF file = <<>> THEN <<>> ELSE NormHeader(file[1])
        mismatch == exists /\ existing_header # NormHeader(header)
    IN  [mode         |-> OpenMode(exists),
         abort        |-> mismatch,
         writeheader  |-> ~mismatch /\ WritesHeader(exists),
         rows_written |-> IF exists /\ ~mismatch THEN RowsWritten(file) ELSE 0]

\* ------------------------------------------------------------------------
\* One iteration of main's row loop (lines 603-668)
\* ------------------------------------------------------------------------
CachePut(cache, key, v) ==
    [k \in DOMAIN cache \cup {key} |-> IF k = key THEN v ELSE cache[k]]

\* lines 655-657: the row after the decision
DecidedRow_AlwaysAssign(row, sentence) ==
    [k \in DOMAIN row \cup {H_Sentence} |->
        IF k = H_Sentence THEN (IF Truthy(sentence) THEN sentence ELSE <<>>)
        ELSE row[k]]
DecidedRow(row, sentence) ==
    IF Truthy(sentence)
    THEN [k \in DOMAIN row \cup {H_Sentence} |->
            IF k = H_Sentence THEN sentence ELSE row[k]]
    ELSE row

\* the cache is never consulted
CacheHit_Never(key, cache) == FALSE
\* line 626: key in cache
CacheHit(key, cache) == key \in DOMAIN cache

\* the sleep is left out
SleepTime_None(interval) == 0
\* lines 641-642: the time slept before the fallback is called
SleepTime(interval) == IF interval > 0 THEN interval ELSE 0

\* The local result for a term: the cached value, or a search (whose
\* outcome may depend on the iteration order of the variant set).
LocalResults(term, key, cache, o, file_sentences, inverted) ==
    IF CacheHit(key, cache) THEN {cache[key]}
    ELSE {SearchLoop(SearchAcc0, todo, 1, term, file_sentences,
                     o.min_words, o.max_words, o.prefer_shorter) :
            todo \in {ToVisit(term, file_sentences, inverted, perm) :
                        perm \in Perms4}}

\* The outcomes of the rest of the iteration once the local result is known.
\* searched: search_sources_for_term was called; fetched: the fallback was
\* called; slept: the time slept before it; resp: what the request answered
\* ("none" when the fallback was not called).
AfterLocal(row, term, key, cache1, sentence1, searched, o, responses) ==
    IF ~Truthy(sentence1) /\ o.fallback
    THEN {LET f == fetch_tatoeba_sentence(term, resp, o.min_words, o.max_words)
          IN  IF f.raised
              THEN [kind |-> "raise", cache |-> cache1, row |-> row,
                    searched |-> searched, fetched |-> TRUE,
                    slept |-> SleepTime(o.interval), resp |-> resp.kind]
              ELSE [kind  |-> IF Truthy(f.value) THEN "hit" ELSE "miss",
                    cache |-> IF Truthy(f.value)
                              THEN CachePut(cache1, key, f.value) ELSE cache1,
                    row   |-> DecidedRow(row, f.value),
                    searched |-> searched, fetched |-> TRUE,
                    slept |-> SleepTime(o.interval), resp |-> resp.kind]
          : resp \in IF o.requests THEN responses ELSE {NoRequests}}
    ELSE {[kind  |-> IF Truthy(sentence1) THEN "hit" ELSE "miss",
           cache |-> cache1,
           row   |-> DecidedRow(row, sentence1),
           searched |-> searched, fetched |-> FALSE,
           slept |-> 0, resp |-> "none"]}

\* Every outcome of iteration i (0-based) on row.  kind is
\*   "resumed" "before_start" "no_term" "has_sentence"  (continue, no write)
\*   "break"                                            (leave the loop)
\*   "hit" "miss"                                       (the row is written)
\*   "raise"                                            (uncaught exception)
RowStep(i, row, cache, already_written, o, file_sentences, inverted, responses) ==
    LET term    == Strip(Get(row, H_Term))
        already == Strip(Get(row, H_Sentence))
        key     == Join(LowerStr(term))
        quiet(kind) == {[kind |-> kind, cache |-> cache, row |-> row,
                         searched |-> FALSE, fetched |-> FALSE,
                         slept |-> 0, resp |-> "none"]}
    IN  IF i < already_written THEN quiet("resumed")
        ELSE IF i < o.start_index THEN quiet("before_start")
        ELSE IF o.max_rows # <<>> /\ (i - o.start_index) >= o.max_rows[1]
             THEN quiet("break")
        ELSE IF term = <<>> THEN quiet("no_term")
        ELSE IF already # <<>> /\ o.overwrite = "no" THEN quiet("has_sentence")
        ELSE UNION {AfterLocal(row, term, key, CachePut(cache, key, s1), s1,
                               ~CacheHit(key, cache), o, responses) :
                      s1 \in LocalResults(term, key, cache, o,
                                          file_sentences, inverted)}
Writes(kind) == kind \in {"hit", "miss"}

\* ------------------------------------------------------------------------
\* Inputs of the model
\* ------------------------------------------------------------------------
\* "The old market sells fresh bread every morning."
S_Bread ==
    <<"T","h","e"," ","o","l","d"," ","m","a","r","k","e","t"," ","s","e","l","l","s"," ","f","r","e","s","h"," ","b","r","e","a","d"," ","e","v","e","r","y"," ","m","o","r","n","i","n","g",".">>
\* "The market is in the old town."
S_Town ==
    <<"T","h","e"," ","m","a","r","k","e","t"," ","i","s"," ","i","n"," ","t","h","e"," ","o","l","d"," ","t","o","w","n",".">>
\* "I think the 'market' is open."
S_Quoted ==
    <<"I"," ","t","h","i","n","k"," ","t","h","e"," ","'","m","a","r","k","e","t","'"," ","i","s"," ","o","p","e","n",".">>
\* "We saw the markets in the city."
S_Plural ==
    <<"W","e"," ","s","a","w"," ","t","h","e"," ","m","a","r","k","e","t","s"," ","i","n"," ","t","h","e"," ","c","i","t","y",".">>
\* "Dr. Smith went to the old market."
S_Doctor ==
    <<"D","r","."," ","S","m","i","t","h"," ","w","e","n","t"," ","t","o"," ","t","h","e"," ","o","l","d"," ","m","a","r","k","e","t",".">>

SentencePool == {S_Bread, S_Town, S_Quoted, S_Plural, S_Doctor}

T_market == <<"m","a","r","k","e","t">>
T_xenon  == <<"x","e","n","o","n">>
\* "market", "xenon", and the phrase "in the": no token of the index holds
\* a space
Terms == {T_market, T_xenon, <<"i","n"," ","t","h","e">>}
\* (min_words, max_words) pairs; 6 and 22 are the documented usage
WordBounds == {<<6, 22>>, <<7, 22>>}

\* The corpus holds at most MaxSents sentences, spread over two documents
MaxSents == 2
RECURSIVE SeqsUpTo(_, _)
SeqsUpTo(S, n) ==
    IF n = 0 THEN {<<>>}
    ELSE LET shorter == SeqsUpTo(S, n - 1)
         IN  shorter \cup {Append(q, x) : q \in {r \in shorter : Len(r) = n - 1}, x \in S}
Corpora ==
    UNION {{<<Sub(q, 1, k), Sub(q, k + 1, Len(q))>> : k \in 0..Len(q)} :
              q \in SeqsUpTo(SentencePool, MaxSents)}

\* Texts for the sentence utilities: up to MaxFrags fragments with a space
\* between them
MaxFrags == 3
\* " ".join(parts)
RECURSIVE JoinSpace(_)
JoinSpace(parts) ==
    IF parts = <<>> THEN <<>>
    ELSE IF Len(parts) = 1 THEN parts[1]
    ELSE parts[1] \o <<" ">> \o JoinSpace(Tail(parts))
UTexts ==
    {JoinSpace(q) : q \in SeqsUpTo({
        \* "Dr."   "Prof."
        <<"D","r",".">>, <<"P","r","o","f",".">>,
        \* "Smith arrived."
        <<"S","m","i","t","h"," ","a","r","r","i","v","e","d",".">>,
        \* "He left."
        <<"H","e"," ","l","e","f","t",".">>,
        \* 'He said "Go."'
        <<"H","e"," ","s","a","i","d"," ","\"","G","o",".","\"">>,
        \* "(See Fig.)"
        <<"(","S","e","e"," ","F","i","g",".",")">>,
        \* "No  way\n"
        <<"N","o"," "," ","w","a","y","\n">> }, MaxFrags)}

\* Sentences for the Quality Filter
FilterSentences ==
    SentencePool \cup {
      \* "The market in the old town sells bread."
      <<"T","h","e"," ","m","a","r","k","e","t"," ","i","n"," ","t","h","e"," ","o","l","d"," ","t","o","w","n"," ","s","e","l","l","s"," ","b","r","e","a","d",".">>,
      \* "Old market vendors said prices rose again."
      <<"O","l","d"," ","m","a","r","k","e","t"," ","v","e","n","d","o","r","s"," ","s","a","i","d"," ","p","r","i","c","e","s"," ","r","o","s","e"," ","a","g","a","i","n",".">> }

\* The sources directory of a run of main: two text files
\* "The market is in the old town. I think the 'market' is open."
Text_A ==
    <<"T","h","e"," ","m","a","r","k","e","t"," ","i","s"," ","i","n"," ","t","h","e"," ","o","l","d"," ","t","o","w","n","."," ","I"," ","t","h","i","n","k"," ","t","h","e"," ","'","m","a","r","k","e","t","'"," ","i","s"," ","o","p","e","n",".">>
\* an empty text file
Text_B == <<>>
SourceTexts == <<Text_A, Text_B>>
\* lines 573-582: each file's text split once
PreloadedSentences ==
    [d \in DOMAIN SourceTexts |->
        IF SourceTexts[d] = <<>> THEN <<>> ELSE split_sentences(SourceTexts[d])]
\* lines 588-594: the index over them
PreloadedIndex == BuildInverted(PreloadedSentences)

\* Input rows: the fields (term, sentence, note) of a record
F_Old  == <<"O","l","d"," ","o","n","e",".">>
F_Note == <<"n">>
F_TwoLines == <<"a", "\n", "b">>
RowPool ==
    { <<T_market, <<>>, F_Note>>,
      << <<>>, <<>>, F_Note>>,
      <<T_xenon, <<>>, F_TwoLines>>,
      <<T_xenon, F_Old, F_Note>> }
\* an input file has at most MaxRows records
MaxRows == 2
InputHeaders ==
    { <<H_Term, H_Sentence, H_Note>>,
      <<<<"<BOM>">> \o H_Term, H_Sentence, H_Note>>,
      <<H_Term, H_Sentence, <<" ">> \o H_Note>>,
      <<H_Term, H_Note>> }

\* The options of a run: the defaults, and each option changed in turn
DefaultOptions ==
    [overwrite |-> "no", start_index |-> 0, max_rows |-> <<>>,
     dry_run |-> FALSE, fallback |-> FALSE, user_agent |-> FALSE,
     prefer_shorter |-> FALSE, min_words |-> 6, max_words |-> 28,
     interval |-> 1, requests |-> TRUE,
     sources_ok |-> TRUE, input_ok |-> TRUE]
Options ==
    { DefaultOptions,
      [DefaultOptions EXCEPT !.overwrite = "yes"],
      [DefaultOptions EXCEPT !.start_index = 1],
      [DefaultOptions EXCEPT !.max_rows = <<1>>],
      [DefaultOptions EXCEPT !.dry_run = TRUE],
      [DefaultOptions EXCEPT !.prefer_shorter = TRUE],
      [DefaultOptions EXCEPT !.fallback = TRUE],
      [DefaultOptions EXCEPT !.fallback = TRUE, !.user_agent = TRUE],
      [DefaultOptions EXCEPT !.fallback = TRUE, !.user_agent = TRUE,
                             !.interval = 0],
      [DefaultOptions EXCEPT !.fallback = TRUE, !.user_agent = TRUE,
                             !.requests = FALSE],
      [DefaultOptions EXCEPT !.fallback = TRUE, !.user_agent = TRUE,
                             !.overwrite = "yes"],
      [DefaultOptions EXCEPT !.sources_ok = FALSE],
      [DefaultOptions EXCEPT !.input_ok = FALSE] }

\* What the Tatoeba request can answer
Responses ==
    { [kind |-> "error", results |-> <<>>],
      [kind |-> "status", results |-> <<>>],
      [kind |-> "notobject", results |-> <<>>],
      [kind |-> "notlist", results |-> <<>>],
      [kind |-> "ok", results |-> <<>>],
      [kind |-> "ok", results |-> <<S_Plural, S_Town>>],
      [kind |-> "ok", results |-> <<
          \* "the xenon is in the lamp."
          <<"t","h","e"," ","x","e","n","o","n"," ","i","s"," ","i","n"," ","t","h","e"," ","l","a","m","p",".">>,
          \* "We saw the xenon."
          <<"W","e"," ","s","a","w"," ","t","h","e"," ","x","e","n","o","n",".">>,
          \* "We saw the xenon in the old lamp"
          <<"W","e"," ","s","a","w"," ","t","h","e"," ","x","e","n","o","n"," ","i","n"," ","t","h","e"," ","o","l","d"," ","l","a","m","p">>,
          \* "We saw the xenon in the lamp."
          <<"W","e"," ","s","a","w"," ","t","h","e"," ","x","e","n","o","n"," ","i","n"," ","t","h","e"," ","l","a","m","p",".">> >>] }

\* The output destination before the first run: absent, empty, a file with
\* another header, a file whose header matches once normalized
Destinations ==
    { [there |-> FALSE, disk |-> <<>>],
      [there |-> TRUE,  disk |-> <<>>],
      [there |-> TRUE,  disk |-> << <<H_Term, H_Sentence>>,
                                    <<T_xenon, <<>> >> >>],
      [there |-> TRUE,
       disk |-> << <<<<"<BOM>">> \o H_Term \o <<" ">>, H_Sentence, H_Note>> >>] }

\* The runs explored: every option setting on a fresh destination, and the
\* default options on every input header and every destination
NoDisk == [there |-> FALSE, disk |-> <<>>]
PlainHeader == <<H_Term, H_Sentence, H_Note>>
Configurations ==
    {[header |-> PlainHeader, opts |-> o, dest |-> NoDisk] : o \in Options}
    \cup {[header |-> h, opts |-> DefaultOptions, dest |-> NoDisk] :
              h \in InputHeaders}
    \cup {[header |-> PlainHeader, opts |-> DefaultOptions, dest |-> d] :
              d \in Destinations}

\* The writer's buffer holds BufCap records before it is written out
BufCap == 2

\* ------------------------------------------------------------------------
\* State
\* ------------------------------------------------------------------------
VARIABLES
    \* one call of search_sources_for_term, statement by statement
    q_term, q_fs, q_bounds, q_prefer, q_inverted,
    q_pc,       \* "call", "loop", "done"
    q_todo,     \* the postings the loop iterates over
    q_k,        \* position of the next posting to examine
    q_acc,      \* best, best_len, and whether `return s2` was executed
    q_result,   \* the returned value
    \* the environment of main
    in_header, in_records,  \* the input CSV
    opts,                   \* the parsed arguments
    out_there, out_disk,    \* the output file: whether it exists, its records
    \* one process running main
    pc,          \* "start" "load" "columns" "preload" "loop" "finish",
                 \* then "exit", "killed" or "interrupted"
    exit_code, exit_reason,
    header, rows, already_written,
    out_buf,     \* records written but still in the process's buffer
    file_sentences, inverted, cache,
    i,           \* the loop index (0-based)
    updated, skipped,
    log,         \* the per-row lines printed by this run: <<i, tag>>
    \* history
    run,         \* "first", or how the first run ended: "after_kill",
                 \* "after_interrupt", "after_exit"
    dest0,       \* the destination before the first run
    disk0,       \* the destination when the last run called
                 \* _prepare_output_writer
    events,      \* this run's iterations: [i, kind, rec, searched,
                 \* fetched, slept, resp]
    \* the sentence utilities applied to one text
    u_text,      \* the text
    u_pc,        \* "text", then "split" and "rejoined", "filtered" or
                 \* "matched"
    u_parts,     \* split_sentences(u_text)
    u_again,     \* split_sentences(" ".join(u_parts))
    u_bounds,    \* the bounds given to the Quality Filter
    u_accept,    \* seems_complete_sentence(u_text, bounds)
    u_term,      \* the term whose pattern is searched in the text
    u_match,     \* build_match_regex(u_term).search(u_text) found a match
    \* one call of a translation function
    t_fn,        \* "Scripts/DeepL_Translator.translate",
                 \* "DeepL_Translator.translate_en_to_it" or
                 \* "LibreTranslate_Local_Scraper.translate_en_to_it"
    t_retries,   \* the retries argument
    t_pc,        \* "loop", then "returned" or "raised"
    t_attempt,   \* the loop variable
    t_delay,     \* delay in seconds, as <<numerator, denominator>>
    t_result,    \* the value returned
    t_raised,    \* the exception that left the function, "" when none
    t_log        \* the iterations so far: [attempt, posts, reply, slept]

uvars == <<u_text, u_pc, u_parts, u_again, u_bounds, u_accept, u_term,
           u_match>>
svars == <<q_term, q_fs, q_bounds, q_prefer, q_inverted, q_pc, q_todo, q_k,
           q_acc, q_result>>
tvars == <<t_fn, t_retries, t_pc, t_attempt, t_delay, t_result, t_raised,
           t_log>>
\* what a run of main leaves alone
qvars == <<svars, uvars, tvars>>
envvars == <<in_header, in_records, opts>>
procvars == <<header, rows, already_written, file_sentences, inverted, cache,
              i, updated, skipped, log, events, disk0>>
rvars == <<envvars, out_there, out_disk, pc, exit_code, exit_reason, out_buf,
           procvars, run, dest0>>
\* what a call of search_sources_for_term leaves alone
mvars == <<rvars, uvars, tvars>>
vars == <<qvars, mvars>>

\* The variables of the parts that are not running
UIdle ==
    /\ u_text = <<>> /\ u_pc = "idle" /\ u_parts = <<>> /\ u_again = <<>>
    /\ u_bounds = <<>> /\ u_accept = FALSE
    /\ u_term = <<>> /\ u_match = FALSE
TIdle ==
    /\ t_fn = "" /\ t_retries = 0 /\ t_pc = "idle" /\ t_attempt = 0
    /\ t_delay = <<0, 1>> /\ t_result = None /\ t_raised = "" /\ t_log = <<>>
QIdle ==
    /\ q_term = <<>> /\ q_fs = <<>> /\ q_bounds = <<>> /\ q_prefer = FALSE
    /\ q_inverted = NoIndex /\ q_pc = "idle" /\ q_todo = <<>> /\ q_k = 1
    /\ q_acc = SearchAcc0 /\ q_result = None
\* no call of _prepare_output_writer yet
NotOpened == [opened |-> FALSE, there |-> FALSE, disk |-> <<>>]
ProcFresh ==
    /\ header = <<>> /\ rows = <<>> /\ already_written = 0
    /\ file_sentences = <<>> /\ inverted = NoIndex /\ cache = <<>>
    /\ i = 0 /\ updated = 0 /\ skipped = 0 /\ log = <<>> /\ events = <<>>
    /\ disk0 = NotOpened
\* the memory of a process that has not started
ProcReset ==
    /\ header' = <<>> /\ rows' = <<>> /\ already_written' = 0
    /\ file_sentences' = <<>> /\ inverted' = NoIndex /\ cache' = <<>>
    /\ i' = 0 /\ updated' = 0 /\ skipped' = 0 /\ log' = <<>> /\ events' = <<>>
MainIdle ==
    /\ in_header = <<>> /\ in_records = <<>> /\ opts = DefaultOptions
    /\ out_there = FALSE /\ out_disk = <<>> /\ pc = "idle"
    /\ exit_code = 0 /\ exit_reason = "" /\ out_buf = <<>>
    /\ ProcFresh /\ run = "first" /\ dest0 = NoDisk

\* ------------------------------------------------------------------------
\* search_sources_for_term, one loop iteration per step
\* ------------------------------------------------------------------------
QInit ==
    /\ q_fs \in Corpora
    /\ q_inverted \in {NoIndex, BuildInverted(q_fs)}
    /\ q_term \in Terms
    /\ q_bounds \in WordBounds
    /\ q_prefer \in BOOLEAN
    /\ q_pc = "call"
    /\ q_todo = <<>>
    /\ q_k = 1
    /\ q_acc = SearchAcc0
    /\ q_result = None
    /\ MainIdle
    /\ UIdle
    /\ TIdle

\* lines 364-377 and 394-395: build the candidate list, pick the loop
QBegin ==
    /\ q_pc = "call"
    /\ q_todo' \in {ToVisit(q_term, q_fs, q_inverted, perm) : perm \in Perms4}
    /\ q_k' = 1
    /\ q_acc' = SearchAcc0
    /\ q_pc' = "loop"
    /\ UNCHANGED <<q_term, q_fs, q_bounds, q_prefer, q_inverted, q_result>>
    /\ UNCHANGED mvars

\* lines 379-391 / 398-407: one iteration
QExamine ==
    /\ q_pc = "loop"
    /\ q_k <= Len(q_todo)
    /\ ~q_acc.returned
    /\ q_acc' = Examine(q_acc, q_todo[q_k], q_term, q_fs,
                        q_bounds[1], q_bounds[2], q_prefer)
    /\ q_k' = q_k + 1
    /\ UNCHANGED <<q_term, q_fs, q_bounds, q_prefer, q_inverted, q_pc,
                   q_todo, q_result>>
    /\ UNCHANGED mvars

\* lines 391, 392, 407, 408: return
QReturn ==
    /\ q_pc = "loop"
    /\ (IF q_acc.returned THEN TRUE ELSE q_k > Len(q_todo))
    /\ q_result' = q_acc.best
    /\ q_pc' = "done"
    /\ UNCHANGED <<q_term, q_fs, q_bounds, q_prefer, q_inverted, q_todo,
                   q_k, q_acc>>
    /\ UNCHANGED mvars

SearchNext == QBegin \/ QExamine \/ QReturn
SearchSpec == QInit /\ [][SearchNext]_vars

\* ------------------------------------------------------------------------
\* The sentence utilities on a text
\* ------------------------------------------------------------------------
UInit ==
    /\ u_text \in UTexts \cup FilterSentences \cup {
        \* "My cat sleeps."
        <<"M","y"," ","c","a","t"," ","s","l","e","e","p","s",".">>,
        \* "Two cats play."
        <<"T","w","o"," ","c","a","t","s"," ","p","l","a","y",".">>,
        \* "The Cat's toy is here."
        <<"T","h","e"," ","C","a","t","'","s"," ","t","o","y"," ","i","s"," ","h","e","r","e",".">>,
        \* "Old CATES are sweet."
        <<"O","l","d"," ","C","A","T","E","S"," ","a","r","e"," ","s","w","e","e","t",".">>,
        \* "A category of things."
        <<"A"," ","c","a","t","e","g","o","r","y"," ","o","f"," ","t","h","i","n","g","s",".">>,
        \* "The bobcat ran."
        <<"T","h","e"," ","b","o","b","c","a","t"," ","r","a","n",".">>,
        \* "Use a cat_5 cable."
        <<"U","s","e"," ","a"," ","c","a","t","_","5"," ","c","a","b","l","e",".">>,
        \* "A cat-like animal."
        <<"A"," ","c","a","t","-","l","i","k","e"," ","a","n","i","m","a","l",".">>,
        \* "They concatenate files."
        <<"T","h","e","y"," ","c","o","n","c","a","t","e","n","a","t","e"," ","f","i","l","e","s",".">>,
        \* "Both cat5 and cats."
        <<"B","o","t","h"," ","c","a","t","5"," ","a","n","d"," ","c","a","t","s",".">> }
    /\ u_pc = "text"
    /\ u_parts = <<>> /\ u_again = <<>>
    /\ u_bounds = <<>> /\ u_accept = FALSE
    /\ u_term = <<>> /\ u_match = FALSE
    /\ QIdle
    /\ MainIdle
    /\ TIdle

\* split_sentences(text)
USplit ==
    /\ u_pc = "text"
    /\ u_parts' = split_sentences(u_text)
    /\ u_pc' = "split"
    /\ UNCHANGED <<u_text, u_again, u_bounds, u_accept, u_term, u_match, svars,
                   rvars, tvars>>

\* split_sentences(" ".join(parts)) on the sentences just produced
URejoin ==
    /\ u_pc = "split"
    /\ u_again' = split_sentences(JoinSpace(u_parts))
    /\ u_pc' = "rejoined"
    /\ UNCHANGED <<u_text, u_parts, u_bounds, u_accept, u_term, u_match, svars,
                   rvars, tvars>>

\* seems_complete_sentence(text, min_words, max_words)
UFilter ==
    /\ u_pc = "text"
    /\ \E b \in WordBounds :
          /\ u_bounds' = b
          /\ u_accept' = seems_complete_sentence(u_text, b[1], b[2])
    /\ u_pc' = "filtered"
    /\ UNCHANGED <<u_text, u_parts, u_again, u_term, u_match, svars, rvars,
                   tvars>>

\* build_match_regex(term).search(text), for "market", "xenon", "in the"
\* and "cat"
UMatch ==
    /\ u_pc = "text"
    /\ \E t \in Terms \cup {<<"c","a","t">>} :
          /\ u_term' = t
          /\ u_match' = build_match_regex(t, u_text)
    /\ u_pc' = "matched"
    /\ UNCHANGED <<u_text, u_parts, u_again, u_bounds, u_accept, svars,
                   rvars, tvars>>

UtilNext == USplit \/ URejoin \/ UFilter \/ UMatch
UtilSpec == UInit /\ [][UtilNext]_vars

\* ------------------------------------------------------------------------
\* The translation calls: translate (Scripts/DeepL_Translator.py) and the
\* two translate_en_to_it (DeepL_Translator.py, LibreTranslate_Local_Scraper.py)
\* on a text that is not empty, one loop iteration per step
\* ------------------------------------------------------------------------
\* the retries argument is at most MaxRetries (the default is 3)
MaxRetries == 3

\* time.sleep(delay) is called on the last iteration as well
TAttempt_SleepsAfterLast ==
    /\ t_pc = "loop"
    /\ \E r1, r2 \in {"timeout", "ok", "empty", "400", "429", "456", "500"} :
          LET second  == t_fn # "LibreTranslate" /\ r1 = "400"
              r       == IF second THEN r2 ELSE r1
              quota   == t_fn = "Scripts/DeepL" /\ r = "456"
              limited == t_fn = "Scripts/DeepL" /\ r = "429"
              last    == t_attempt = t_retries
              again   == ~quota /\ r \notin {"ok", "empty"} /\ ~last
          IN  /\ ~second => r2 = r1
              /\ t_pc' = IF quota \/ (limited /\ last) THEN "raised"
                         ELSE IF again THEN "loop" ELSE "returned"
              /\ t_raised' = IF quota THEN "QuotaExceededError"
                             ELSE IF limited /\ last THEN "RateLimitedError"
                             ELSE ""
              /\ t_result' = IF r = "ok" THEN <<"t">> ELSE None
              /\ t_delay' = IF again THEN <<t_delay[1] * 17, t_delay[2] * 10>>
                            ELSE t_delay
              /\ t_attempt' = IF again THEN t_attempt + 1 ELSE t_attempt
              /\ t_log' = Append(t_log,
                                 [attempt |-> t_attempt,
                                  posts   |-> IF second THEN 2 ELSE 1,
                                  reply   |-> r,
                                  slept   |-> IF ~quota /\ r \notin {"ok", "empty"}
                                              THEN t_delay ELSE <<>>])
    /\ UNCHANGED <<t_fn, t_retries, svars, rvars, uvars>>

\* One iteration of `for attempt in range(1, retries + 1)`.  r1 is what the
\* post answers: "timeout" when it raises, "ok" for status 200 with a
\* translation, "empty" for status 200 without one, or the status.  The
\* DeepL functions post again after 400 (and 403), and r2 answers that.
TAttempt ==
    /\ t_pc = "loop"
    /\ \E r1, r2 \in {"timeout", "ok", "empty", "400", "429", "456", "500"} :
          LET second  == t_fn # "LibreTranslate" /\ r1 = "400"
              r       == IF second THEN r2 ELSE r1
              \* raise QuotaExceededError / RateLimitedError
              quota   == t_fn = "Scripts/DeepL" /\ r = "456"
              limited == t_fn = "Scripts/DeepL" /\ r = "429"
              last    == t_attempt = t_retries
              \* time.sleep(delay); delay *= 1.7
              again   == ~quota /\ r \notin {"ok", "empty"} /\ ~last
          IN  /\ ~second => r2 = r1
              /\ t_pc' = IF quota \/ (limited /\ last) THEN "raised"
                         ELSE IF again THEN "loop" ELSE "returned"
              /\ t_raised' = IF quota THEN "QuotaExceededError"
                             ELSE IF limited /\ last THEN "RateLimitedError"
                             ELSE ""
              /\ t_result' = IF r = "ok" THEN <<"t">> ELSE None
              /\ t_delay' = IF again THEN <<t_delay[1] * 17, t_delay[2] * 10>>
                            ELSE t_delay
              /\ t_attempt' = IF again THEN t_attempt + 1 ELSE t_attempt
              /\ t_log' = Append(t_log,
                                 [attempt |-> t_attempt,
                                  posts   |-> IF second THEN 2 ELSE 1,
                                  reply   |-> r,
                                  slept   |-> IF again THEN t_delay ELSE <<>>])
    /\ UNCHANGED <<t_fn, t_retries, svars, rvars, uvars>>

\* A call with delay = 1.5 about to make its first attempt
TInit ==
    /\ t_fn \in {"Scripts/DeepL", "DeepL", "LibreTranslate"}
    /\ t_retries \in 1..MaxRetries
    /\ t_pc = "loop" /\ t_attempt = 1 /\ t_delay = <<15, 10>>
    /\ t_result = None /\ t_raised = "" /\ t_log = <<>>
    /\ QIdle /\ UIdle /\ MainIdle

\* a running call goes on to its next iteration
TransSpec == TInit /\ [][TAttempt]_vars /\ WF_vars(TAttempt)

\* ------------------------------------------------------------------------
\* main
\* ------------------------------------------------------------------------
Init ==
    /\ QIdle
    /\ UIdle
    /\ TIdle
    /\ \E c \in Configurations :
          /\ in_header = c.header
          /\ opts = c.opts
          /\ dest0 = c.dest
    /\ in_records \in SeqsUpTo(RowPool, MaxRows)
    /\ out_there = dest0.there
    /\ out_disk = dest0.disk
    /\ pc = "start"
    /\ exit_code = 0 /\ exit_reason = "" /\ out_buf = <<>>
    /\ ProcFresh
    /\ run = "first"

\* The process ends: the interpreter flushes and closes the open file
Exit(code, reason, disk, buf) ==
    /\ pc' = "exit"
    /\ exit_code' = code
    /\ exit_reason' = reason
    /\ out_disk' = disk \o buf
    /\ out_buf' = <<>>

\* writer.writerow(rec): the record goes to the buffer, which is written
\* out once it holds BufCap records
Buffered(disk, buf, rec) ==
    LET b == Append(buf, rec)
    IN  IF Len(b) >= BufCap THEN [disk |-> disk \o b, buf |-> <<>>]
        ELSE [disk |-> disk, buf |-> b]

\* the user agent is not looked at
CheckConfig_NoAgentCheck ==
    /\ pc = "start"
    /\ IF ~opts.sources_ok THEN Exit(1, "sources", out_disk, out_buf)
       ELSE IF ~opts.input_ok THEN Exit(1, "input", out_disk, out_buf)
       ELSE /\ pc' = "load"
            /\ UNCHANGED <<exit_code, exit_reason, out_disk, out_buf>>
    /\ UNCHANGED <<qvars, envvars, out_there, procvars, run, dest0>>

\* lines 538-553: the user agent, the sources directory, the input file
CheckConfig ==
    /\ pc = "start"
    /\ IF opts.fallback /\ ~opts.user_agent
       THEN Exit(1, "user_agent", out_disk, out_buf)
       ELSE IF ~opts.sources_ok THEN Exit(1, "sources", out_disk, out_buf)
       ELSE IF ~opts.input_ok THEN Exit(1, "input", out_disk, out_buf)
       ELSE /\ pc' = "load"
            /\ UNCHANGED <<exit_code, exit_reason, out_disk, out_buf>>
    /\ UNCHANGED <<qvars, envvars, out_there, procvars, run, dest0>>

\* lines 555-558: load_csv_rows, then _prepare_output_writer
LoadAndOpen ==
    /\ pc = "load"
    /\ LET ld == load_csv_rows(in_header, in_records)
           w  == _prepare_output_writer(out_there, out_disk, ld.header)
           opened == IF w.mode = "w" THEN <<>> ELSE out_disk
           wr == IF w.writeheader THEN Buffered(opened, <<>>, ld.header)
                 ELSE [disk |-> opened, buf |-> <<>>]
       IN  /\ header' = ld.header
           /\ rows' = ld.rows
           /\ disk0' = [opened |-> TRUE, there |-> out_there, disk |-> out_disk]
           /\ out_there' = TRUE
           /\ already_written' = w.rows_written
           /\ IF w.abort
              THEN Exit(1, "header", opened, <<>>)
              ELSE /\ pc' = "columns"
                   /\ out_disk' = wr.disk
                   /\ out_buf' = wr.buf
                   /\ UNCHANGED <<exit_code, exit_reason>>
    /\ UNCHANGED <<qvars, envvars, file_sentences, inverted, cache, i, updated,
                   skipped, log, events, run, dest0>>

\* lines 560-565: the required columns
CheckColumns ==
    /\ pc = "columns"
    /\ IF {H_Term, H_Sentence} \subseteq SeqRange(header)
       THEN /\ pc' = "preload"
            /\ UNCHANGED <<exit_code, exit_reason, out_disk, out_buf>>
       ELSE Exit(1, "columns", out_disk, out_buf)
    /\ UNCHANGED <<qvars, envvars, out_there, procvars, run, dest0>>

\* lines 567-601: split every source, build the index, start with no cache
Preload ==
    /\ pc = "preload"
    /\ file_sentences' = PreloadedSentences
    /\ inverted' = PreloadedIndex
    /\ cache' = <<>>
    /\ updated' = 0 /\ skipped' = 0 /\ i' = 0
    /\ pc' = "loop"
    /\ UNCHANGED <<qvars, envvars, out_there, out_disk, exit_code, exit_reason,
                   out_buf, header, rows, already_written, log, events, disk0,
                   run, dest0>>

\* the line printed for a row that was looked up
LogTag(kind, row) ==
    IF kind = "miss" THEN "MISS"
    ELSE IF Strip(Get(row, H_Sentence)) # <<>> /\ opts.overwrite = "yes"
         THEN "OVERWRITE" ELSE "OK"

\* lines 603-668: one iteration of the row loop
ProcessRow ==
    /\ pc = "loop"
    /\ i < Len(rows)
    /\ \E o \in RowStep(i, rows[i + 1], cache, already_written, opts,
                        file_sentences, inverted, Responses) :
          LET rec == safe_row(header, o.row)
              wr  == IF Writes(o.kind) THEN Buffered(out_disk, out_buf, rec)
                     ELSE [disk |-> out_disk, buf |-> out_buf]
          IN  /\ cache' = o.cache
              /\ events' = Append(events,
                                  [i |-> i, kind |-> o.kind,
                                   rec |-> IF Writes(o.kind) THEN rec ELSE <<>>,
                                   searched |-> o.searched,
                                   fetched |-> o.fetched,
                                   slept |-> o.slept, resp |-> o.resp])
              /\ log' = IF Writes(o.kind)
                        THEN Append(log, <<i, LogTag(o.kind, rows[i + 1])>>)
                        ELSE log
              /\ updated' = IF o.kind = "hit" THEN updated + 1 ELSE updated
              /\ skipped' = IF o.kind \in {"no_term", "has_sentence"}
                            THEN skipped + 1 ELSE skipped
              /\ IF o.kind = "raise"
                 THEN /\ Exit(1, "exception", out_disk, out_buf)
                      /\ i' = i
                 ELSE /\ pc' = IF o.kind = "break" THEN "finish" ELSE "loop"
                      /\ i' = IF o.kind = "break" THEN i ELSE i + 1
                      /\ out_disk' = wr.disk
                      /\ out_buf' = wr.buf
                      /\ UNCHANGED <<exit_code, exit_reason>>
    /\ UNCHANGED <<qvars, envvars, out_there, header, rows, already_written,
                   file_sentences, inverted, disk0, run, dest0>>

\* lines 670-686: after the loop
Finish ==
    /\ IF pc = "loop" THEN i >= Len(rows) ELSE pc = "finish"
    /\ Exit(0, IF opts.dry_run THEN "dry_run" ELSE "done", out_disk, out_buf)
    /\ UNCHANGED <<qvars, envvars, out_there, procvars, run, dest0>>

Running == {"start", "load", "columns", "preload", "loop", "finish"}

\* The process is terminated from outside while it runs.  A signal that
\* kills it at once loses what the writer still buffers; an interrupt
\* (KeyboardInterrupt) unwinds the interpreter, which flushes the open file.
Kill ==
    /\ pc \in Running
    /\ \E flush \in BOOLEAN :
          /\ out_disk' = IF flush THEN out_disk \o out_buf ELSE out_disk
          /\ pc' = IF flush THEN "interrupted" ELSE "killed"
    /\ out_buf' = <<>>
    /\ exit_reason' = "terminated"
    /\ ProcReset
    /\ UNCHANGED <<qvars, envvars, out_there, exit_code, disk0, run, dest0>>

\* The same command is run again on the same input and destination
Rerun ==
    /\ pc \in {"killed", "interrupted", "exit"}
    /\ run = "first"
    /\ run' = CASE pc = "killed" -> "after_kill"
                [] pc = "interrupted" -> "after_interrupt"
                [] OTHER -> "after_exit"
    /\ pc' = "start"
    /\ exit_code' = 0
    /\ exit_reason' = ""
    /\ ProcReset
    /\ disk0' = NotOpened
    /\ UNCHANGED <<qvars, envvars, out_there, out_disk, out_buf, dest0>>

Next ==
    \/ CheckConfig
    \/ LoadAndOpen
    \/ CheckColumns
    \/ Preload
    \/ ProcessRow
    \/ Finish
    \/ Kill
    \/ Rerun
Spec == Init /\ [][Next]_vars

\* ------------------------------------------------------------------------
\* Claims about main
\* ------------------------------------------------------------------------
IsPrefix(p, q) == Len(p) <= Len(q) /\ Sub(q, 1, Len(p)) = p
\* the header main expects in the output
ExpectedHeader == NormHeader(in_header)
\* the process is past _prepare_output_writer, or was when it was terminated
Opened == disk0.opened
\* the run resumes an output file that holds something
Resumed == Opened /\ disk0.there /\ disk0.disk # <<>>

\* ------------------------------------------------------------------------
\* C1  Resume idempotence.  The reference is the set of files a single
\* uninterrupted run over all rows can leave on a fresh destination: the
\* header, then the record of every iteration that writes.
\* ------------------------------------------------------------------------
Loaded == load_csv_rows(in_header, in_records)
RECURSIVE RunRows(_, _, _)
RunRows(k, c, recs) ==
    IF k >= Len(Loaded.rows) THEN {recs}
    ELSE UNION {
           IF o.kind = "raise" THEN {}
           ELSE IF o.kind = "break" THEN {recs}
           ELSE RunRows(k + 1, o.cache,
                        IF Writes(o.kind)
                        THEN Append(recs, safe_row(Loaded.header, o.row))
                        ELSE recs) :
           o \in RowStep(k, Loaded.rows[k + 1], c, 0, opts,
                         PreloadedSentences, PreloadedIndex, Responses)}
UninterruptedOutputs == {<<Loaded.header>> \o r : r \in RunRows(0, <<>>, <<>>)}

\* no field of the input holds a line break
NoLineBreaks ==
    \A r \in DOMAIN in_records : \A k \in DOMAIN in_records[r] :
       "\n" \notin SeqRange(in_records[r][k])

\* C1: on a fresh destination and an input without line breaks in its
\* fields, when the first run was interrupted (its buffer flushed) and the
\* same command, run again, has finished with status 0, the output file is
\* one an uninterrupted run produces.
C1_ResumeIdempotent ==
    (/\ run = "after_interrupt"
     /\ dest0 = NoDisk
     /\ NoLineBreaks
     /\ in_header = PlainHeader
     /\ pc = "exit" /\ exit_code = 0)
    => out_disk \in UninterruptedOutputs

\* ------------------------------------------------------------------------
\* C2  Every input row is written once, in input order.
\* ------------------------------------------------------------------------
\* record rec is the copy of row: every column but the sentence is the row's
CopyOf(rec, row) ==
    /\ Len(rec) = Len(header)
    /\ \A k \in DOMAIN header :
          header[k] # H_Sentence => rec[k] = Get(row, header[k])

\* C2: when a first run with start offset 0 and no row cap on an absent
\* or empty destination has finished with status 0, the output holds the
\* header and then, for every j, the copy of the j-th input row.
C2_EveryRowWrittenInOrder ==
    (/\ run = "first"
     /\ dest0.disk = <<>>
     /\ in_header = PlainHeader
     /\ opts.start_index = 0 /\ opts.max_rows = <<>>
     /\ pc = "exit" /\ exit_code = 0)
    => /\ Len(out_disk) = 1 + Len(rows)
       /\ \A j \in 1..Len(rows) : CopyOf(out_disk[j + 1], rows[j])

\* ------------------------------------------------------------------------
\* C3  The resume count.
\* ------------------------------------------------------------------------
\* C3: once _prepare_output_writer has accepted an existing output file,
\* the number of leading rows main skips (already_written) is the number of
\* records that file holds after its header.
C3_SkipCountIsRecordCount ==
    (/\ Resumed
     /\ pc \in {"columns", "preload", "loop", "finish"})
    => already_written = Len(disk0.disk) - 1

\* ------------------------------------------------------------------------
\* C4  Header mismatch.
\* ------------------------------------------------------------------------
HeaderMismatch ==
    Resumed /\ NormHeader(disk0.disk[1]) # ExpectedHeader

\* C4: when the existing, non-empty output file has a header that differs,
\* once normalized, from the expected one, the process has exited from
\* _prepare_output_writer with the header error and a non-zero status, no
\* row has been handled, and the file is as it was.
C4_HeaderMismatchAborts ==
    HeaderMismatch
    => /\ pc = "exit"
       /\ exit_reason = "header"
       /\ exit_code # 0
       /\ events = <<>> /\ i = 0 /\ updated = 0 /\ skipped = 0
       /\ out_disk = disk0.disk
       /\ out_buf = <<>>
\* the abort happened with input rows waiting
C4_Witness ==
    /\ HeaderMismatch
    /\ pc = "exit"
    /\ exit_reason = "header"
    /\ Len(rows) > 0

\* ------------------------------------------------------------------------
\* C5  One header, append only.
\* ------------------------------------------------------------------------
HeaderCount(file) ==
    Cardinality({k \in DOMAIN file : NormHeader(file[k]) = ExpectedHeader})

\* C5: from the call of _prepare_output_writer on, the file as it was at the
\* call is a prefix of the file; unless the header was refused, the records
\* written (on disk or still buffered) start with the header and hold it
\* once, and a process that has exited leaves a file that is not empty.
C5_OneHeaderAppendOnly ==
    Opened =>
       /\ IsPrefix(disk0.disk, out_disk)
       /\ exit_reason # "header" =>
             LET f == out_disk \o out_buf
             IN  /\ f # <<>> => (NormHeader(f[1]) = ExpectedHeader
                                 /\ HeaderCount(f) = 1)
                 /\ pc = "exit" => out_disk # <<>>
\* a resumed run has appended to the file it found and finished
C5_Witness ==
    /\ Resumed
    /\ run # "first"
    /\ pc = "exit" /\ exit_code = 0
    /\ Len(out_disk) > Len(disk0.disk)

\* ------------------------------------------------------------------------
\* C6  Crash preservation.
\* ------------------------------------------------------------------------
\* C6: when the loop is about to handle the next row and the iteration
\* before wrote a record, that record is on disk, not in the buffer.
C6_WrittenBeforeNextRow ==
    (/\ pc = "loop"
     /\ i < Len(rows)
     /\ events # <<>>
     /\ Writes(events[Len(events)].kind))
    => events[Len(events)].rec \notin SeqRange(out_buf)

\* ------------------------------------------------------------------------
\* C9  A miss is not an error.
\* ------------------------------------------------------------------------
\* the lowercased, stripped term of the row handled by event e
KeyOf(e) == Join(LowerStr(Strip(Get(rows[e.i + 1], H_Term))))

\* C9: with fallback disabled, every iteration that ended in a miss left an
\* empty result for the term, logged MISS for the row, wrote the row with
\* every field, the sentence included, as it was in the input, and the loop
\* went on: the index moved past the row and no error ended the process.
C9_MissWritesRowUnchanged ==
    \A k \in DOMAIN events :
       (events[k].kind = "miss" /\ ~opts.fallback) =>
          LET e == events[k]
          IN  /\ KeyOf(e) \in DOMAIN cache
              /\ ~Truthy(cache[KeyOf(e)])
              /\ <<e.i, "MISS">> \in SeqRange(log)
              /\ e.rec = safe_row(header, rows[e.i + 1])
              /\ e.rec \in SeqRange(out_disk \o out_buf)
              /\ i > e.i
              /\ pc \in {"loop", "finish", "exit"}
              /\ pc = "exit" => exit_code = 0
\* a miss on a row whose sentence was filled, followed by another iteration
C9_Witness ==
    \E k \in DOMAIN events :
       /\ events[k].kind = "miss"
       /\ ~opts.fallback
       /\ Get(rows[events[k].i + 1], H_Sentence) # <<>>
       /\ k < Len(events)

\* ------------------------------------------------------------------------
\* C12  Result cache.
\* ------------------------------------------------------------------------
\* an answer of that kind came from a request that was sent
Requested(kind) == kind \notin {"none", "unavailable"}
\* the sentence cell of a written record
SentenceOf(rec) == rec[CHOOSE k \in DOMAIN header : header[k] = H_Sentence]
\* events k1 < k2 of this run looked up the same normalized term
SameTerm(k1, k2) ==
    /\ k1 < k2
    /\ events[k1].kind \in {"hit", "miss", "raise"}
    /\ events[k2].kind \in {"hit", "miss", "raise"}
    /\ KeyOf(events[k1]) = KeyOf(events[k2])

\* C12: of two rows of one run that carry the same normalized term, the
\* later one did not call search_sources_for_term; without fallback it
\* ended as the earlier one did, a hit writing the same sentence.
C12_SearchOncePerTerm ==
    \A k1, k2 \in DOMAIN events :
       SameTerm(k1, k2) =>
          /\ ~events[k2].searched
          /\ ~opts.fallback =>
                /\ events[k2].kind = events[k1].kind
                /\ events[k1].kind = "hit" =>
                      SentenceOf(events[k2].rec) = SentenceOf(events[k1].rec)
\* a term that was searched and missed came again and was not searched
C12_Witness ==
    \E k1, k2 \in DOMAIN events :
       /\ SameTerm(k1, k2)
       /\ events[k1].searched
       /\ events[k1].kind = "miss"
       /\ events[k2].kind = "miss"
       /\ ~events[k2].searched

\* ------------------------------------------------------------------------
\* C13  One external request per term.
\* ------------------------------------------------------------------------
\* C13: with fallback enabled, of two rows of one run that carry the same
\* normalized term and were both written, at most one sent a request
\* (an iteration sends at most one: it has one answer).
C13_OneRequestPerTerm ==
    opts.fallback =>
       \A k1, k2 \in DOMAIN events :
          (SameTerm(k1, k2) /\ Writes(events[k1].kind)
                           /\ Writes(events[k2].kind)) =>
             ~(Requested(events[k1].resp) /\ Requested(events[k2].resp))

\* ------------------------------------------------------------------------
\* C14  Fallback without a client identifier.
\* ------------------------------------------------------------------------
NoAgent == opts.fallback /\ ~opts.user_agent

\* C14: with fallback enabled and no client identifier, the process goes
\* from its start to exit status 1 with the user-agent error (or is
\* terminated before); the input has not been read, the output
\* destination has not been created or opened and is as it was, the
\* corpus has not been loaded and no row has been handled or request sent.
C14_NoAgentExitsBeforeWork ==
    NoAgent =>
       /\ pc \in {"start", "exit", "killed", "interrupted"}
       /\ pc = "exit" => (exit_code = 1 /\ exit_reason = "user_agent")
       /\ header = <<>> /\ rows = <<>>
       /\ ~Opened
       /\ out_there = dest0.there /\ out_disk = dest0.disk /\ out_buf = <<>>
       /\ file_sentences = <<>> /\ inverted = NoIndex
       /\ events = <<>>
\* the error ended a run whose input held rows
C14_Witness ==
    /\ NoAgent
    /\ pc = "exit" /\ exit_reason = "user_agent"
    /\ in_records # <<>>

\* ------------------------------------------------------------------------
\* C15  A remote failure is never fatal.
\* ------------------------------------------------------------------------
FailureKinds == {"error", "status", "notobject", "notlist"}

\* C15: every iteration whose request failed (an error, a status other
\* than 200, a body that is not JSON, JSON that is not an object or whose
\* results are not a list) ended as a miss, its row was written, the loop
\* went on and no exception ended the process.
C15_RemoteFailureIsAMiss ==
    \A k \in DOMAIN events :
       events[k].resp \in FailureKinds =>
          /\ events[k].kind = "miss"
          /\ events[k].rec \in SeqRange(out_disk \o out_buf)
          /\ i > events[k].i
          /\ exit_reason # "exception"

\* ------------------------------------------------------------------------
\* C16  Throttling.  Time is counted in the time slept: the request of
\* event k is sent after the sleeps of events 1..k.
\* ------------------------------------------------------------------------
SentAt(k) == SumSeq([j \in 1..k |-> events[j].slept])
Throttled ==
    opts.interval > 0 =>
       /\ \A k \in DOMAIN events :
             Requested(events[k].resp) => events[k].slept = opts.interval
       /\ \A k1, k2 \in DOMAIN events :
             (k1 < k2 /\ Requested(events[k1].resp)
                      /\ Requested(events[k2].resp))
             => SentAt(k2) - SentAt(k1) >= opts.interval

\* C16 as stated: with a positive interval every request is preceded by a
\* sleep of the interval, two requests are at least the interval apart,
\* and an iteration that sends no request does not sleep.
C16_SleepOnlyBeforeRequest ==
    /\ Throttled
    /\ opts.interval > 0 =>
          \A k \in DOMAIN events :
             events[k].slept > 0 => Requested(events[k].resp)

\* C16 amended: with a positive interval every request is preceded by a
\* sleep of the interval, two requests are at least the interval apart,
\* and an iteration that does not call the fallback does not sleep (one
\* that calls it sleeps the interval, also when the requests module is
\* missing and no request is sent).
C16_SleepOnlyBeforeFallback ==
    /\ Throttled
    /\ opts.interval > 0 =>
          \A k \in DOMAIN events :
             /\ events[k].slept > 0 => events[k].fetched
             /\ events[k].fetched => events[k].slept = opts.interval
\* two requests of one run, and a row between or around them without one
C16_Witness ==
    /\ opts.interval > 0
    /\ \E k1, k2 \in DOMAIN events :
          /\ k1 < k2
          /\ Requested(events[k1].resp) /\ Requested(events[k2].resp)
          /\ SentAt(k2) - SentAt(k1) = opts.interval

\* ------------------------------------------------------------------------
\* C17  Quality Filter soundness, on what is written.
\* ------------------------------------------------------------------------
\* C17: the sentence every hit wrote, found locally or by the fallback,
\* has between min_words and max_words words, ends in '.', '!' or '?',
\* and its first letter is uppercase.
C17_WrittenSentencesAreSound ==
    \A k \in DOMAIN events :
       events[k].kind = "hit" =>
          LET s == SentenceOf(events[k].rec)
              alphas == {a \in DOMAIN s : s[a] \in AlphaSet}
          IN  /\ opts.min_words <= WordCount(s)
              /\ WordCount(s) <= opts.max_words
              /\ s # <<>> /\ s[Len(s)] \in {".", "!", "?"}
              /\ \E a \in alphas :
                    s[a] \in UpperSet /\ \A b \in alphas : a <= b
\* a local hit and a hit of the fallback in one run
C17_Witness ==
    \E k1, k2 \in DOMAIN events :
       /\ events[k1].kind = "hit" /\ ~events[k1].fetched
       /\ events[k2].kind = "hit" /\ events[k2].fetched
       /\ events[k2].resp = "ok"

\* ------------------------------------------------------------------------
\* C7  Index correctness: a finished call that was given the inverted index
\* returns what the brute-force scan (inverted = None) returns.
\* ------------------------------------------------------------------------
BruteForce ==
    search_sources_for_term(q_term, q_fs, q_bounds[1], q_bounds[2], q_prefer,
                            NoIndex, [n \in 1..4 |-> n])
\* C7: when a call that was given the index has returned, its result is the
\* result of the brute-force scan of the same corpus for the same arguments.
C7_IndexEqualsBruteForce ==
    (q_pc = "done" /\ q_inverted.present) => q_result = BruteForce

\* ------------------------------------------------------------------------
\* C8  End-to-end scenario: the corpus holds "The old market sells fresh
\* bread every morning.", the term is "market", the bounds are [6,22].
\* ------------------------------------------------------------------------
CorpusSentences == {q_fs[r[1]][r[2]] : r \in SeqRange(AllRefs(q_fs))}
C8_Case ==
    /\ q_pc = "done"
    /\ q_term = T_market
    /\ q_bounds = <<6, 22>>
    /\ CorpusSentences = {S_Bread}

\* C8 as stated: in that scenario local retrieval returns exactly that
\* sentence.
C8_ReturnsBreadSentence == C8_Case => q_result = S_Bread

\* C8 amended: in that scenario local retrieval returns no sentence.  The sentence matches
\* the term and passes every other rule of the Quality Filter, but it has a
\* single function word and no verb-like token, so the last rule rejects it.
C8_BreadSentenceRejected ==
    C8_Case =>
        /\ q_result = None
        /\ build_match_regex(T_market, S_Bread)
        /\ seems_complete_sentence_NoLexical(S_Bread, 6, 22)
        /\ func_count(S_Bread) = 1
        /\ ~verb_hit(S_Bread)
C8_Witness == C8_Case /\ q_inverted.present /\ q_k > 1

\* ------------------------------------------------------------------------
\* C10  Selection policy.  A candidate qualifies when its sentence (after
\* strip_outer_quotes and first_sentence) matches the term and passes the
\* Quality Filter.  With prefer_shorter the result is the first candidate,
\* in loop order, among those of minimum word count; without it the result
\* is the first qualifying candidate and no later candidate is examined.
\* ------------------------------------------------------------------------
S2Of(ref) == first_sentence(strip_outer_quotes(q_fs[ref[1]][ref[2]]))
Qualifies(ref) ==
    /\ build_match_regex(q_term, S2Of(ref))
    /\ seems_complete_sentence(S2Of(ref), q_bounds[1], q_bounds[2])
QualIdx == {a \in DOMAIN q_todo : Qualifies(q_todo[a])}
WordsAt(a) == WordCount(S2Of(q_todo[a]))

\* C10: a finished call with prefer_shorter returns the first candidate among
\* the qualifying ones of minimum word count, having examined every
\* candidate; without prefer_shorter it returns the first qualifying
\* candidate and has examined none after it; with no qualifying candidate
\* it returns None.
C10_SelectionPolicy ==
    q_pc = "done" =>
        IF QualIdx = {} THEN q_result = None /\ q_k = Len(q_todo) + 1
        ELSE IF q_prefer
        THEN /\ q_k = Len(q_todo) + 1
             /\ \E a \in QualIdx :
                   /\ q_result = S2Of(q_todo[a])
                   /\ \A b \in QualIdx :
                         /\ WordsAt(a) <= WordsAt(b)
                         /\ (b < a => WordsAt(b) > WordsAt(a))
        ELSE \E a \in QualIdx :
                /\ \A b \in QualIdx : a <= b
                /\ q_result = S2Of(q_todo[a])
                /\ q_k = a + 1
\* two different qualifying candidates tie for the minimum
C10_Witness ==
    /\ q_pc = "done"
    /\ q_prefer
    /\ \E a, b \in QualIdx :
          /\ a < b
          /\ WordsAt(a) = WordsAt(b)
          /\ S2Of(q_todo[a]) # S2Of(q_todo[b])
          /\ \A c \in QualIdx : WordsAt(a) <= WordsAt(c)
          /\ q_result = S2Of(q_todo[a])

\* ------------------------------------------------------------------------
\* C11  Full scan for a term without postings.
\* ------------------------------------------------------------------------
\* no lookup variant of the term has postings in the index
NoPostings ==
    \A n \in 1..4 : InvertedGet(q_inverted, VariantList(q_term)[n]) = <<>>
AllIdx == {a \in DOMAIN AllRefs(q_fs) : Qualifies(AllRefs(q_fs)[a])}

\* C11: when a call that was given the index has returned for a term none
\* of whose variants has postings, the loop went over every sentence of
\* every document, and the result is a qualifying sentence of the corpus
\* whenever the corpus holds one (None otherwise).
C11_FullScanWhenNoPostings ==
    (q_pc = "done" /\ q_inverted.present /\ NoPostings) =>
        /\ q_todo = AllRefs(q_fs)
        /\ IF AllIdx = {} THEN q_result = None
           ELSE \E a \in AllIdx : q_result = S2Of(AllRefs(q_fs)[a])
\* the phrase "in the" was found by the scan of an indexed corpus
C11_Witness ==
    /\ q_pc = "done" /\ q_inverted.present /\ NoPostings
    /\ " " \in SeqRange(q_term)
    /\ Len(q_todo) = MaxSents
    /\ q_result # None

\* ------------------------------------------------------------------------
\* C18  The lexical-plausibility rule of the Quality Filter.
\* ------------------------------------------------------------------------
\* the filter was applied to a sentence that passes every rule before the
\* last one
C18_Case ==
    /\ u_pc = "filtered"
    /\ LengthOk(u_text, u_bounds[1], u_bounds[2])
    /\ EndsOk(u_text) /\ StartsOk(u_text)
    /\ ~Noisy(u_text) /\ ~Shouty(u_text)
    /\ _looks_wordy(u_text)

\* C18 as stated: such a sentence is rejected exactly when it has fewer
\* than two function words and no verb-like token.
C18_RejectedWhenBothLack ==
    C18_Case =>
       (~u_accept <=> (func_count(u_text) < 2 /\ ~verb_hit(u_text)))

\* C18 amended: such a sentence is rejected exactly when it has fewer than
\* two function words or no verb-like token; it is accepted only with at
\* least two function words and at least one verb-like token.
C18_RejectedWhenEitherLacks ==
    C18_Case =>
       (~u_accept <=> (func_count(u_text) < 2 \/ ~verb_hit(u_text)))
\* three function words and no verb-like token: rejected
C18_Witness ==
    /\ C18_Case
    /\ func_count(u_text) = 3 /\ ~verb_hit(u_text)
    /\ ~u_accept

\* ------------------------------------------------------------------------
\* C19  Abbreviation non-split.
\* ------------------------------------------------------------------------
\* "Dr. Smith arrived. He left."
DrSmithText ==
    <<"D","r","."," ","S","m","i","t","h"," ","a","r","r","i","v","e","d","."," ","H","e"," ","l","e","f","t",".">>
\* "Dr. Smith arrived."
DrSmithArrived ==
    <<"D","r","."," ","S","m","i","t","h"," ","a","r","r","i","v","e","d",".">>

\* "He left."
HeLeft == <<"H","e"," ","l","e","f","t",".">>

\* C19: "Dr. Smith arrived. He left." is split into "Dr. Smith arrived."
\* and "He left."; and of the sentences split_sentences returns for any
\* text, none but the last ends in a listed abbreviation.
C19_AbbreviationNotSplit ==
    u_pc \in {"split", "rejoined"} =>
       /\ u_text = DrSmithText => u_parts = <<DrSmithArrived, HeLeft>>
       /\ \A k \in 1..(Len(u_parts) - 1) :
             Join(LowerStr(LastToken(u_parts[k]))) \notin _ABBREV_TOKENS
C19_Witness ==
    /\ u_pc = "split"
    /\ u_text = DrSmithText
    /\ Len(u_parts) = 2

\* ------------------------------------------------------------------------
\* C20  Segmentation idempotence.
\* ------------------------------------------------------------------------
\* C20: splitting the sentences of a text, joined by single spaces, gives
\* the same sentences.
C20_SegmentationIdempotent ==
    u_pc = "rejoined" => u_again = u_parts
\* fragments were merged across an abbreviation, and closing characters
\* consumed at a split point are missing from the joined sentences
C20_Witness ==
    /\ u_pc = "rejoined"
    /\ Len(u_parts) >= 2
    /\ Len(SplitFrom(normalize_ws(u_text), 1, 1)) > Len(u_parts)
    /\ JoinSpace(u_parts) # normalize_ws(u_text)
    /\ u_again = u_parts

\* ------------------------------------------------------------------------
\* C21  A text without terminal punctuation.
\* ------------------------------------------------------------------------
\* C21: a non-empty text that contains none of '.', '!', '?' is split into
\* zero sentences.
C21_NoTerminatorNoSentences ==
    (/\ u_pc \in {"split", "rejoined"}
     /\ u_text # <<>>
     /\ \A k \in DOMAIN u_text : u_text[k] \notin Terminators)
       => u_parts = <<>>
\* C21 (amended): a text with a non-space character and none of '.', '!',
\* '?' is split into exactly one sentence, the text with its whitespace
\* collapsed and its ends trimmed.
C21_NoTerminatorOneSentence ==
    (/\ u_pc \in {"split", "rejoined"}
     /\ \E k \in DOMAIN u_text : ~IsSpace(u_text[k])
     /\ \A k \in DOMAIN u_text : u_text[k] \notin Terminators)
       => u_parts = <<normalize_ws(u_text)>>
C21_Witness ==
    /\ u_pc = "split"
    /\ \E k \in DOMAIN u_text : ~IsSpace(u_text[k])
    /\ \A k \in DOMAIN u_text : u_text[k] \notin Terminators
    /\ Len(u_parts) = 1
    /\ u_parts[1] # u_text

\* ------------------------------------------------------------------------
\* C22  Variant matching.
\* ------------------------------------------------------------------------
\* v stands in s as a whole word (any letter case): no letter, digit or
\* underscore touches it on either side
WholeWord(s, v) ==
    \E p \in DOMAIN s :
        /\ OccursAtCI(s, p, v)
        /\ (p = 1 \/ s[p - 1] \notin WordChSet)
        /\ (p + Len(v) > Len(s) \/ s[p + Len(v)] \notin WordChSet)
\* t occurs in s, and each time as the start of a longer word whose tail is
\* neither "s" nor "es"
OnlyLongerWords(s, t) ==
    /\ \E p \in DOMAIN s : OccursAtCI(s, p, t)
    /\ \A p \in DOMAIN s :
          OccursAtCI(s, p, t) =>
             /\ (p = 1 \/ s[p - 1] \notin WordChSet)
             /\ p + Len(t) <= Len(s)
             /\ s[p + Len(t)] \in WordChSet
             /\ ~WholeWord(s, t \o <<"s">>)
             /\ ~WholeWord(s, t \o <<"e", "s">>)

\* C22: the pattern of a term made of letters finds a match in a text that
\* holds the term, or the term followed by "s", "es" or "'s", as a whole
\* word in any letter case, and finds none in a text where the term only
\* starts longer words with another tail.
C22_VariantMatching ==
    (u_pc = "matched" /\ \A k \in DOMAIN u_term : IsAlpha(u_term[k])) =>
       /\ \A tl \in Tails \cup {<<>>} :
             WholeWord(u_text, u_term \o tl) => u_match
       /\ OnlyLongerWords(u_text, u_term) => ~u_match
\* "cats" is found, the bare term being absent
C22_Witness ==
    /\ u_pc = "matched"
    /\ \A k \in DOMAIN u_term : IsAlpha(u_term[k])
    /\ WholeWord(u_text, u_term \o <<"s">>)
    /\ ~WholeWord(u_text, u_term)
    /\ u_match
\* "category" is not found
C22_WitnessLonger ==
    /\ u_pc = "matched"
    /\ \A k \in DOMAIN u_term : IsAlpha(u_term[k])
    /\ OnlyLongerWords(u_text, u_term)
    /\ ~u_match

\* ------------------------------------------------------------------------
\* C23  Column pass-through.
\* ------------------------------------------------------------------------
\* C23: every record written by a run has one cell per cell of the input
\* header, in the input's order, and each cell outside the sentence column
\* holds the input file's field of that row and column (nothing, when the
\* input record is short); fields beyond the header are left out.
C23_ColumnsPassThrough ==
    \A k \in DOMAIN events :
       Writes(events[k].kind) =>
          LET rec    == events[k].rec
              fields == in_records[events[k].i + 1]
          IN  /\ Len(rec) = Len(in_header)
              /\ \A c \in DOMAIN in_header :
                    NormCell(in_header[c]) # H_Sentence =>
                       rec[c] = IF c <= Len(fields) THEN fields[c] ELSE <<>>

\* ------------------------------------------------------------------------
\* C24  Dry run.
\* ------------------------------------------------------------------------
\* C24: with the dry-run option set, the output destination stays as it was
\* before the run: it is not created, and it gets no header and no rows.
C24_DryRunWritesNothing ==
    opts.dry_run => (out_there = dest0.there /\ out_disk = dest0.disk)

\* ------------------------------------------------------------------------
\* C25  Overwrite policy.
\* ------------------------------------------------------------------------
\* C25: for a row whose input sentence is not blank: with overwrite = no no
\* record is written for it with another sentence (the row is passed over);
\* with overwrite = yes the record written on a hit holds the sentence found
\* for the term, and the record written on a miss holds the input sentence.
C25_OverwritePolicy ==
    \A k \in DOMAIN events :
       LET e   == events[k]
           old == Get(rows[e.i + 1], H_Sentence)
       IN  Strip(old) # <<>> =>
              /\ opts.overwrite = "no" => ~Writes(e.kind)
              /\ Writes(e.kind) =>
                    /\ opts.overwrite = "yes"
                    /\ SentenceOf(e.rec) # <<>>
                    /\ e.kind = "miss" => SentenceOf(e.rec) = old
                    /\ e.kind = "hit" =>
                          /\ Truthy(cache[KeyOf(e)])
                          /\ SentenceOf(e.rec) = cache[KeyOf(e)]
\* an existing sentence was replaced by the one found
C25_Witness ==
    \E k \in DOMAIN events :
       /\ events[k].kind = "hit"
       /\ opts.overwrite = "yes"
       /\ Get(rows[events[k].i + 1], H_Sentence) # <<>>
       /\ SentenceOf(events[k].rec) # Get(rows[events[k].i + 1], H_Sentence)
\* an existing sentence was kept on a miss, and one was passed over
C25_WitnessKept ==
    \/ \E k \in DOMAIN events :
          /\ events[k].kind = "miss"
          /\ opts.overwrite = "yes"
          /\ SentenceOf(events[k].rec) = F_Old
    \/ \E k \in DOMAIN events : events[k].kind = "has_sentence"

\* ------------------------------------------------------------------------
\* C26  The inverted index.
\* ------------------------------------------------------------------------
\* the lowercased stretches of letters and apostrophes of a sentence
Stretches(s) ==
    {Join(LowerStr(Sub(s, pq[1], pq[2]))) :
        pq \in {x \in (DOMAIN s) \X (DOMAIN s) :
                  x[1] <= x[2] /\ \A k \in x[1]..x[2] : s[k] \in TokChSet}}
\* every posting names a sentence that exists and holds the token, and no
\* posting list names a sentence twice
IndexSound ==
    /\ \A t \in DOMAIN inverted.map :
          LET ps == inverted.map[t]
          IN  \A k \in DOMAIN ps :
                 /\ ps[k][1] \in DOMAIN file_sentences
                 /\ ps[k][2] \in DOMAIN file_sentences[ps[k][1]]
                 /\ \A j \in DOMAIN ps : ps[j] = ps[k] => j = k
    /\ \A d \in DOMAIN file_sentences :
          \A n \in DOMAIN file_sentences[d] :
             LET held == Stretches(file_sentences[d][n])
             IN  \A t \in DOMAIN inverted.map :
                    <<d, n>> \in SeqRange(inverted.map[t]) => t \in held

\* C26: once main has built the index, every posting of every token refers
\* to an existing sentence that holds the token, no posting list holds a
\* (document, i) pair twice, and the iterations of the row loop change
\* neither the index nor the sentence lists.
C26_IndexInvariants ==
    /\ [](pc = "loop" /\ events = <<>> => IndexSound)
    /\ [][pc = "loop" /\ pc' \in {"loop", "finish", "exit"} =>
             inverted' = inverted /\ file_sentences' = file_sentences]_vars
\* the loop has looked a term up in an index where a token that occurs
\* twice in a sentence has one posting for it
C26_Witness ==
    /\ pc \in {"loop", "finish"}
    /\ \E k \in DOMAIN events : events[k].searched
    /\ \E t \in DOMAIN inverted.map :
          \E k \in DOMAIN inverted.map[t] :
             LET s == file_sentences[inverted.map[t][k][1]][inverted.map[t][k][2]]
             IN  Cardinality({n \in RunStarts(s, TokChSet) : WordAt(s, n) = t}) > 1

\* ------------------------------------------------------------------------
\* C27  Bounded retry with backoff.
\* ------------------------------------------------------------------------
\* the k-th iteration of the call ended in a failure: no answer with status
\* 200 (in Scripts/DeepL_Translator.py status 456 is not counted here)
FailedAt(k) ==
    /\ t_log[k].reply \notin {"ok", "empty"}
    /\ ~(t_fn = "Scripts/DeepL" /\ t_log[k].reply = "456")
\* C27: a call with retries = n makes at most n attempts, numbered 1, 2, ...
\* and ends; after a failed attempt k < n it sleeps 1.5 * 1.7^(k-1) seconds;
\* it does not sleep after attempt n; a failure at attempt n other than the
\* statuses 429 and 456 of Scripts/DeepL_Translator.py makes it return None;
\* and status 456 in Scripts/DeepL_Translator.py makes it raise
\* QuotaExceededError at once, with no sleep and no further attempt.
C27_BoundedRetry ==
    /\ [](/\ Len(t_log) <= t_retries
          /\ \A k \in DOMAIN t_log :
                /\ t_log[k].attempt = k
                /\ (k < t_retries /\ FailedAt(k)) =>
                      t_log[k].slept = <<15 * 17^(k - 1), 10^k>>
                /\ k = t_retries => t_log[k].slept = <<>>
                /\ (/\ k = t_retries /\ FailedAt(k)
                    /\ ~(t_fn = "Scripts/DeepL" /\ t_log[k].reply = "429")) =>
                      (t_pc = "returned" /\ t_result = None /\ t_raised = "")
                /\ (t_fn = "Scripts/DeepL" /\ t_log[k].reply = "456") =>
                      /\ t_pc = "raised" /\ t_raised = "QuotaExceededError"
                      /\ k = Len(t_log)
                      /\ t_log[k].slept = <<>>)
    /\ <>(t_pc \in {"returned", "raised"})
\* three failed attempts of a call with retries = 3: sleeps of 1.5 s and
\* 2.55 s, then None
C27_Witness ==
    /\ t_retries = 3
    /\ Len(t_log) = 3
    /\ t_log[1].slept = <<15, 10>>
    /\ t_log[2].slept = <<255, 100>>
    /\ t_log[3].reply = "500"
    /\ t_pc = "returned"
\* status 456 at the second attempt of three
C27_WitnessQuota ==
    /\ t_retries = 3
    /\ Len(t_log) = 2
    /\ t_log[2].reply = "456"
    /\ t_raised = "QuotaExceededError"

\* ------------------------------------------------------------------------
\* C28  Determinism of local retrieval.
\* ------------------------------------------------------------------------
\* C28: the sentence a call of search_sources_for_term returns is the one
\* it returns when the variants are iterated in the order exact, 's, s, es:
\* the iteration order of the variant set makes no difference.
C28_ResultIndependentOfVariantOrder ==
    q_pc = "done" =>
       q_result = search_sources_for_term(q_term, q_fs, q_bounds[1], q_bounds[2],
                                          q_prefer, q_inverted, <<1, 2, 3, 4>>)

\* ------------------------------------------------------------------------
\* C29  Cache consistency.
\* ------------------------------------------------------------------------
\* C29: two rows of one run with the same normalized term that were both
\* updated were written with the same sentence; and an iteration of the row
\* loop leaves every cache entry that holds a sentence as it is.
C29_CacheConsistent ==
    /\ [](\A k1, k2 \in DOMAIN events :
             (/\ SameTerm(k1, k2)
              /\ events[k1].kind = "hit" /\ events[k2].kind = "hit") =>
                SentenceOf(events[k1].rec) = SentenceOf(events[k2].rec))
    /\ [][(pc = "loop" /\ pc' \in {"loop", "finish", "exit"}) =>
             \A key \in DOMAIN cache :
                Truthy(cache[key]) =>
                   (key \in DOMAIN cache' /\ cache'[key] = cache[key])]_vars
\* a sentence found by the fallback was used again for a later row
C29_Witness ==
    \E k1, k2 \in DOMAIN events :
       /\ SameTerm(k1, k2)
       /\ events[k1].kind = "hit" /\ events[k2].kind = "hit"
       /\ events[k1].fetched
       /\ opts.fallback
\* a sentence found locally was used again for a later row
C29_WitnessLocal ==
    \E k1, k2 \in DOMAIN events :
       /\ SameTerm(k1, k2)
       /\ events[k1].kind = "hit" /\ events[k2].kind = "hit"
       /\ ~opts.fallback

\* ------------------------------------------------------------------------
\* C30  Whole sentences.
\* ------------------------------------------------------------------------
\* the entry of the segmented list at ref, less its surrounding quote
\* characters and spaces
WholeAt(ref) == normalize_ws(strip_outer_quotes(q_fs[ref[1]][ref[2]]))

\* C30: the sentence a finished call returns is a whole entry of the
\* sentence lists (less surrounding quote characters and spaces), and when
\* an entry the call visits holds the term and passes the Quality Filter as
\* a whole, the call returns a sentence.
C30_ReturnsWholeEntries ==
    q_pc = "done" =>
       /\ q_result # None =>
             \E ref \in SeqRange(AllRefs(q_fs)) : q_result = WholeAt(ref)
       /\ (\E ref \in SeqRange(q_todo) :
              /\ build_match_regex(q_term, WholeAt(ref))
              /\ seems_complete_sentence(WholeAt(ref), q_bounds[1], q_bounds[2]))
             => q_result # None

====
